---- MODULE Spec2Model ----
(***************************************************************************)
(* Model of the zenithpay-retry engine: the decline catalog and plan       *)
(* builder (internal/domain), the in-memory transaction store              *)
(* (internal/store), the retry engine, the processor simulator and the     *)
(* scheduler (internal/retry) and the webhook notifier's event log         *)
(* (internal/webhook).                                                     *)
(*                                                                         *)
(* Conventions.                                                            *)
(*  - A Go pointer that may be nil (RetryPlan, NextRetryAt) is a sequence  *)
(*    of length 0 (nil) or 1 (the pointee).                                *)
(*  - Instants and durations are whole minutes; an instant counts the      *)
(*    minutes since 00:00 UTC of day 0.                                    *)
(*  - Success rates and random rolls are in percent.                       *)
(*  - Payload and audit fields that no operation reads back (amount,       *)
(*    currency, customer, merchant, created_at, updated_at, executed_at,   *)
(*    response code and message, webhook_url) are not part of the state.   *)
(*  - Every action is one critical section of the code (one acquisition    *)
(*    of the store lock, of the simulator lock or of the notifier lock);   *)
(*    a thread's position between two of them is its pc.                   *)
(***************************************************************************)
EXTENDS Integers, Sequences, FiniteSets, TLC

VARIABLES
    retryStrategies,  \* domain: package-level strategy table, code -> RetryStrategy
    transactions,     \* store.Store.transactions, id -> Transaction
    pendingIDs,       \* store.Store.pendingIDs
    events,           \* webhook.Notifier.events
    now,              \* the wall clock (time.Now), in minutes
    th,               \* the position and locals of every thread
    okCount,          \* history: per id, the ExecuteRetry calls that returned nil
    lastReturn,       \* history: the Submit or ExecuteRetry call that returned last
    clears,           \* history: the number of Store.Clear calls so far
    mu,               \* store.Store.mu: the writer that holds it and the readers
    atomicStore,      \* history: the store had every call run alone, in lock order
    heap,             \* the objects allocated: address -> struct, array or time
    txPtr,            \* store.Store.transactions as the pointers it holds, id -> address
    held,             \* the addresses of the transactions the store's callers hold
    writes,           \* history: the writes callers made through those addresses
    ctxDone,          \* the scheduler's context: TRUE once it has been cancelled
    otherMu           \* retry.Simulator.mu and webhook.Notifier.mu, as store.Store.mu

\* The store at the level of its lock and of the objects it points to, the
\* context of the scheduler and the locks of the simulator and of the notifier:
\* what the engine's own steps never touch.
storeDetail == <<mu, atomicStore, heap, txPtr, held, writes, ctxDone, otherMu>>

vars == <<retryStrategies, transactions, pendingIDs, events, now, th, okCount,
          lastReturn, clears, storeDetail>>

-----------------------------------------------------------------------------
(* Bounds of the model *)

NumTx == 1
NumCallers == 2
MaxClears == 1

TxIDs == 1..NumTx
Callers == 1..NumCallers
Scheduler == NumCallers + 1
Threads == Callers \cup {Scheduler}

None == <<>>
Some(x) == <<x>>

-----------------------------------------------------------------------------
(* internal/domain: statuses, categories, events *)

HardDecline == "hard"
SoftDecline == "soft"

StatusScheduled == "scheduled"
StatusRetrying == "retrying"
StatusRecovered == "recovered"
StatusFailedFinal == "failed_final"
StatusRejected == "rejected"

EventRetryScheduled == "retry.scheduled"
EventRetrySucceeded == "retry.succeeded"
EventRetryFailed == "retry.failed"
EventRetryExhausted == "retry.exhausted"

BackoffFixed == "fixed"
BackoffExponential == "exponential"
BackoffBusinessHours == "business_hours"

Hour == 60
Day == 24 * Hour

(* internal/domain/decline.go: the catalog *)

hardDeclineCodes == {"stolen_card", "fraud_suspected", "invalid_card", "expired_card"}

DefaultStrategy(maxAttempts, delays, rates, useAlt) ==
    [MaxAttempts |-> maxAttempts, Delays |-> delays, PerAttemptRates |-> rates,
     UseAltProcessor |-> useAlt, BackoffType |-> "", BaseDelay |-> 0,
     BackoffMultiplier |-> 0, BusinessHoursStart |-> 0, BusinessHoursEnd |-> 0]

defaultRetryStrategies ==
    [code \in {"insufficient_funds", "issuer_timeout", "do_not_honor",
               "processor_error", "authentication_failed"} |->
        CASE code = "insufficient_funds" ->
                DefaultStrategy(3, <<2 * Hour, 24 * Hour, 48 * Hour>>, <<12, 17, 22>>, FALSE)
          [] code = "issuer_timeout" ->
                DefaultStrategy(3, <<0, 5, 30>>, <<40, 30, 25>>, TRUE)
          [] code = "do_not_honor" ->
                DefaultStrategy(3, <<24 * Hour, 48 * Hour, 72 * Hour>>, <<12, 15, 10>>, FALSE)
          [] code = "processor_error" ->
                DefaultStrategy(3, <<0, 5, 1 * Hour>>, <<35, 25, 20>>, TRUE)
          [] code = "authentication_failed" ->
                DefaultStrategy(2, <<1 * Hour, 6 * Hour>>, <<15, 12>>, FALSE)]

availableProcessors ==
    <<"stripe_latam", "adyen_apac", "dlocal_br", "payu_mx", "mercadopago_co">>

\* ClassifyDecline(code): the hard table first, then the strategy table, else hard.
ClassifyDecline(strategies, code) ==
    IF code \in hardDeclineCodes THEN HardDecline
    ELSE IF code \in DOMAIN strategies THEN SoftDecline
    ELSE HardDecline

\* GetRetryStrategy(code): nil for a code without a strategy.
GetRetryStrategy(strategies, code) ==
    IF code \in DOMAIN strategies THEN Some(strategies[code]) ELSE None

\* GetAvailableProcessors(exclude): availableProcessors without exclude, in order.
GetAvailableProcessors(excludeProcessor) ==
    SelectSeq(availableProcessors, LAMBDA p : p # excludeProcessor)

\* A time.Duration is an int64 of nanoseconds and the model counts minutes:
\* the largest Duration, math.MaxInt64 nanoseconds, is this many minutes.
MaxDuration == 153722867

\* int64 addition: the sum wraps around.
wrapDuration(d) == ((d + MaxDuration + 1) % (2 * MaxDuration + 2)) - MaxDuration - 1

\* float64(base) * pow(multiplier, exp), in minutes: pow's loop, result *=
\* multiplier, started from the base delay instead of 1.0. The multiplier is a
\* percentage (200 is 2.0). A float64 does not overflow here; a result above
\* MaxDuration stands for every value no Duration can hold.
RECURSIVE pow(_, _, _)
pow(result, multiplier, exp) ==
    IF exp <= 0 \/ result > MaxDuration THEN result
    ELSE pow((result \div 100) * multiplier + ((result % 100) * multiplier) \div 100,
             multiplier, exp - 1)

\* A delay read at index i (0-based) of strategy.Delays, the last one repeated.
\* Indexing an empty Delays panics: see buildPanics.
delayAt(strategy, i) ==
    IF i < Len(strategy.Delays) THEN strategy.Delays[i + 1]
    ELSE strategy.Delays[Len(strategy.Delays)]

buildFixedTimes(strategy, baseTime) ==
    [i \in 1..strategy.MaxAttempts |-> baseTime + delayAt(strategy, i - 1)]

\* cumulativeDelay after iteration i (0-based) of buildExponentialTimes' loop.
\* time.Duration(f) truncates f; for an f that no int64 can hold the result
\* of the conversion depends on the implementation, and is outOfRange.
RECURSIVE cumulativeDelay(_, _, _, _)
cumulativeDelay(base, multiplier, i, outOfRange) ==
    IF i < 0 THEN 0
    ELSE LET f == pow(base, multiplier, i)
             delay == IF f > MaxDuration THEN outOfRange ELSE f
         IN  wrapDuration(cumulativeDelay(base, multiplier, i - 1, outOfRange) + delay)

buildExponentialTimes(strategy, baseTime, outOfRange) ==
    LET multiplier == IF strategy.BackoffMultiplier <= 0 THEN 200
                      ELSE strategy.BackoffMultiplier
        base == IF strategy.BaseDelay <= 0 THEN 5 ELSE strategy.BaseDelay
    IN  [i \in 1..strategy.MaxAttempts |->
            baseTime + cumulativeDelay(base, multiplier, i - 1, outOfRange)]

snapToBusinessHours(t, startHour, endHour) ==
    LET hour == (t \div Hour) % 24
        next == (t \div Day) * Day + startHour * Hour
    IN  IF hour >= startHour /\ hour < endHour THEN t
        ELSE IF hour >= endHour THEN next + Day
        ELSE next

buildBusinessHoursTimes(strategy, baseTime) ==
    LET dflt == strategy.BusinessHoursStart = 0 /\ strategy.BusinessHoursEnd = 0
        startHour == IF dflt THEN 9 ELSE strategy.BusinessHoursStart
        endHour == IF dflt THEN 17 ELSE strategy.BusinessHoursEnd
    IN  [i \in 1..strategy.MaxAttempts |->
            snapToBusinessHours(baseTime + delayAt(strategy, i - 1), startHour, endHour)]

buildScheduledTimes(strategy, baseTime, outOfRange) ==
    CASE strategy.BackoffType = BackoffExponential ->
            buildExponentialTimes(strategy, baseTime, outOfRange)
      [] strategy.BackoffType = BackoffBusinessHours -> buildBusinessHoursTimes(strategy, baseTime)
      [] OTHER -> buildFixedTimes(strategy, baseTime)

\* buildFixedTimes and buildBusinessHoursTimes index Delays[len(Delays)-1] when
\* an attempt has no delay of its own: with no delay at all that is index -1,
\* a run-time panic.
buildPanics(strategy) ==
    /\ strategy.BackoffType # BackoffExponential
    /\ strategy.MaxAttempts > 0
    /\ Len(strategy.Delays) = 0

\* BuildRetryPlan(declineCode, originalProcessor, baseTime): nil without a strategy.
BuildRetryPlan(strategies, declineCode, originalProcessor, baseTime, outOfRange) ==
    IF GetRetryStrategy(strategies, declineCode) = None THEN None
    ELSE LET strategy == strategies[declineCode]
             altProcessors == GetAvailableProcessors(originalProcessor)
         IN  Some([MaxAttempts |-> strategy.MaxAttempts,
                   DeclineCode |-> declineCode,
                   ScheduledTimes |-> buildScheduledTimes(strategy, baseTime, outOfRange),
                   Processors |->
                       [i \in 1..strategy.MaxAttempts |->
                           IF strategy.UseAltProcessor /\ i - 1 > 0 /\ Len(altProcessors) > 0
                           THEN altProcessors[((i - 2) % Len(altProcessors)) + 1]
                           ELSE originalProcessor]])

-----------------------------------------------------------------------------
(* internal/domain/config.go: strategy overrides *)

\* time.ParseDuration on the duration strings the model feeds it; None is the
\* parse error.
ParseDuration(str) ==
    CASE str = "0s" -> Some(0)
      [] str = "5m" -> Some(5)
      [] str = "30m" -> Some(30)
      [] str = "1h" -> Some(Hour)
      [] str = "2h" -> Some(2 * Hour)
      [] str = "24h" -> Some(Day)
      [] OTHER -> None

\* A StrategyConfig with every field omitted (its Go zero value).
ZeroConfig ==
    [MaxAttempts |-> 0, Delays |-> <<>>, PerAttemptRates |-> <<>>,
     UseAltProcessor |-> FALSE, BackoffType |-> "", BaseDelay |-> "",
     BackoffMultiplier |-> 0, BusinessHoursStart |-> 0, BusinessHoursEnd |-> 0]

\* validateStrategyConfig(code, cfg): TRUE when it returns nil.
validateStrategyConfig(cfg) ==
    /\ cfg.BackoffType # "" =>
          cfg.BackoffType \in {BackoffFixed, BackoffExponential, BackoffBusinessHours}
    /\ ~(cfg.BackoffMultiplier > 0 /\ cfg.BackoffMultiplier <= 100)
    /\ (cfg.BusinessHoursStart > 0 \/ cfg.BusinessHoursEnd > 0) =>
          /\ ~(cfg.BusinessHoursStart > 23 \/ cfg.BusinessHoursEnd > 23)
          /\ ~(cfg.BusinessHoursStart >= cfg.BusinessHoursEnd)
    /\ \A i \in 1..Len(cfg.PerAttemptRates) :
          ~(cfg.PerAttemptRates[i] < 0 \/ cfg.PerAttemptRates[i] > 100)

\* The body of ApplyStrategyOverrides' loop for one code: the merged strategy,
\* or None when validation or a duration parse fails.
mergeStrategy(strategies, code, cfg) ==
    LET existing == IF code \in DOMAIN strategies THEN strategies[code]
                    ELSE DefaultStrategy(0, <<>>, <<>>, FALSE)
        delaysOk == \A i \in 1..Len(cfg.Delays) : ParseDuration(cfg.Delays[i]) # None
        baseOk == cfg.BaseDelay # "" => ParseDuration(cfg.BaseDelay) # None
    IN  IF ~validateStrategyConfig(cfg) \/ ~delaysOk \/ ~baseOk THEN None
        ELSE Some(
          [MaxAttempts |-> IF cfg.MaxAttempts > 0 THEN cfg.MaxAttempts
                           ELSE existing.MaxAttempts,
           Delays |-> IF Len(cfg.Delays) > 0
                      THEN [i \in 1..Len(cfg.Delays) |-> ParseDuration(cfg.Delays[i])[1]]
                      ELSE existing.Delays,
           PerAttemptRates |-> IF Len(cfg.PerAttemptRates) > 0 THEN cfg.PerAttemptRates
                               ELSE existing.PerAttemptRates,
           UseAltProcessor |-> IF cfg.UseAltProcessor THEN TRUE
                               ELSE existing.UseAltProcessor,
           BackoffType |-> IF cfg.BackoffType # "" THEN cfg.BackoffType
                           ELSE existing.BackoffType,
           BaseDelay |-> IF cfg.BaseDelay # "" THEN ParseDuration(cfg.BaseDelay)[1]
                         ELSE existing.BaseDelay,
           BackoffMultiplier |-> IF cfg.BackoffMultiplier > 0 THEN cfg.BackoffMultiplier
                                 ELSE existing.BackoffMultiplier,
           BusinessHoursStart |->
               IF cfg.BusinessHoursStart > 0 \/ cfg.BusinessHoursEnd > 0
               THEN cfg.BusinessHoursStart ELSE existing.BusinessHoursStart,
           BusinessHoursEnd |->
               IF cfg.BusinessHoursStart > 0 \/ cfg.BusinessHoursEnd > 0
               THEN cfg.BusinessHoursEnd ELSE existing.BusinessHoursEnd])

\* ApplyStrategyOverrides(overrides), the codes visited in the given order (Go
\* ranges over a map in an unspecified order): the table it leaves and whether
\* it returned an error. Entries merged before the failing one stay applied.
RECURSIVE applyInOrder(_, _, _)
applyInOrder(strategies, overrides, order) ==
    IF order = <<>> THEN [table |-> strategies, err |-> FALSE]
    ELSE LET code == Head(order)
             merged == mergeStrategy(strategies, code, overrides[code])
         IN  IF merged = None THEN [table |-> strategies, err |-> TRUE]
             ELSE applyInOrder(
                     [c \in DOMAIN strategies \cup {code} |->
                         IF c = code THEN merged[1] ELSE strategies[c]],
                     overrides, Tail(order))

Orders(S) ==
    {o \in [1..Cardinality(S) -> S] : \A i, j \in 1..Cardinality(S) : o[i] = o[j] => i = j}

-----------------------------------------------------------------------------
(* internal/store/memory.go: the store, as the pair it guards with its lock *)

isPendingStatus(status) == status = StatusScheduled \/ status = StatusRetrying

\* An index that is never pruned.
updatePendingIndexAddOnly(pending, id, status) ==
    IF isPendingStatus(status) THEN pending \cup {id} ELSE pending

\* updatePendingIndex(id, status)
updatePendingIndex(pending, id, status) ==
    IF isPendingStatus(status) THEN pending \cup {id} ELSE pending \ {id}

put(txs, id, tx) == [i \in DOMAIN txs \cup {id} |-> IF i = id THEN tx ELSE txs[i]]

EmptyStore == [transactions |-> << >>, pendingIDs |-> {}]

\* Store.Save(tx)
Save(st, tx) ==
    [transactions |-> put(st.transactions, tx.ID, tx),
     pendingIDs |-> updatePendingIndex(st.pendingIDs, tx.ID, tx.Status)]

\* A store whose SaveIfNotExists does not look for the id first.
SaveWithoutLookup(st, tx) == [store |-> Save(st, tx), err |-> "nil"]

\* Store.SaveIfNotExists(tx): the store it leaves and the error it returns.
SaveIfNotExists(st, tx) ==
    IF tx.ID \in DOMAIN st.transactions
    THEN [store |-> st, err |-> "AlreadyExists"]
    ELSE [store |-> Save(st, tx), err |-> "nil"]

\* The copies UpdateFunc(id, fn) can hand to fn: the stored record, if any.
\* A callback is a function on them, to the [tx, err] it leaves and returns.
Copies(st, id) == IF id \in DOMAIN st.transactions THEN {st.transactions[id]} ELSE {}

\* An UpdateFunc that reports an absent id as a refused update.
UpdateFuncAbsentRefused(st, id, fn) ==
    IF id \notin DOMAIN st.transactions
    THEN [store |-> st, err |-> "NotRetryable"]
    ELSE LET r == fn[st.transactions[id]]
         IN  IF r.err # "nil" THEN [store |-> st, err |-> r.err]
             ELSE [store |-> [transactions |-> put(st.transactions, id, r.tx),
                              pendingIDs |-> updatePendingIndex(st.pendingIDs, id, r.tx.Status)],
                   err |-> "nil"]

\* Store.UpdateFunc(id, fn): the store it leaves and the error it returns; the
\* record fn leaves is installed only when fn returns nil.
UpdateFunc(st, id, fn) ==
    IF id \notin DOMAIN st.transactions
    THEN [store |-> st, err |-> "NotFound"]
    ELSE LET r == fn[st.transactions[id]]
         IN  IF r.err # "nil" THEN [store |-> st, err |-> r.err]
             ELSE [store |-> [transactions |-> put(st.transactions, id, r.tx),
                              pendingIDs |-> updatePendingIndex(st.pendingIDs, id, r.tx.Status)],
                   err |-> "nil"]

\* Store.Get(id): nil (None) with ErrNotFound for an unknown id.
Get(st, id) == IF id \in DOMAIN st.transactions THEN Some(st.transactions[id]) ELSE None

\* Store.GetPendingRetries(): the ids of the pending index that are stored.
GetPendingRetries(st) == {id \in st.pendingIDs : id \in DOMAIN st.transactions}

\* A time filter that leaves out the instant before itself.
GetDueRetriesStrict(st, before) ==
    {id \in st.pendingIDs :
        /\ id \in DOMAIN st.transactions
        /\ st.transactions[id].NextRetryAt # None
        /\ st.transactions[id].NextRetryAt[1] < before}

\* Store.GetDueRetries(before): NextRetryAt non-nil and not after before.
GetDueRetries(st, before) ==
    {id \in st.pendingIDs :
        /\ id \in DOMAIN st.transactions
        /\ st.transactions[id].NextRetryAt # None
        /\ ~(before < st.transactions[id].NextRetryAt[1])}

\* Store.Clear()
Clear(st) == EmptyStore

-----------------------------------------------------------------------------
(* internal/store/memory.go: copyTransaction over the objects pointers reach *)

\* The transactions callers hold a pointer to at one time.
MaxHeld == 2

\* The writes callers make through the pointers they hold.
MaxWrites == 1

\* The heap is a row of slots. A slot holds one transaction struct and what
\* is allocated with it: the plan struct, the backing arrays of the plan's two
\* slices and of the attempts slice, the time next_retry_at points to, and
\* the array an append allocates. A pointer is the slot and the part.
Parts == {"tx", "plan", "times", "procs", "attempts", "next", "grown"}
Slots == 1..(MaxHeld + NumTx + 2)

Nil == [slot |-> 0, part |-> "nil"]
Free == [kind |-> "free"]
at(k, p) == [slot |-> k, part |-> p]
cell(h, ptr) == h[ptr.slot][ptr.part]

emptyHeap == [k \in Slots |-> [p \in Parts |-> Free]]

\* new(T): the slot the allocator gives, the first that holds nothing.
new(h) ==
    LET free == {k \in Slots : h[k] = [p \in Parts |-> Free]}
    IN  CHOOSE k \in free : \A j \in free : k <= j

\* A copy that stops at the struct: cp := *tx and nothing more.
shallowCopy(h, k, n) ==
    [h EXCEPT ![n] = [p \in Parts |-> IF p = "tx" THEN h[k]["tx"] ELSE Free]]

\* copyTransaction(tx), tx in slot k and the copy in slot n: the plan struct,
\* its two slices, the attempts slice and the time next_retry_at points to are
\* allocated anew; the attempts slice of the copy is never nil.
copyTransaction(h, k, n) ==
    LET tx == h[k]["tx"]
        plan == cell(h, tx.RetryPlan)
    IN  [h EXCEPT ![n] =
            [p \in Parts |->
                CASE p = "tx" ->
                        [tx EXCEPT
                            !.RetryPlan = IF tx.RetryPlan = Nil THEN Nil ELSE at(n, "plan"),
                            !.RetryAttempts = at(n, "attempts"),
                            !.NextRetryAt = IF tx.NextRetryAt = Nil THEN Nil
                                            ELSE at(n, "next")]
                  [] p = "plan" /\ tx.RetryPlan # Nil ->
                        [plan EXCEPT !.ScheduledTimes = at(n, "times"),
                                     !.Processors = at(n, "procs")]
                  [] p = "times" /\ tx.RetryPlan # Nil ->
                        [kind |-> "array", elems |-> cell(h, plan.ScheduledTimes).elems]
                  [] p = "procs" /\ tx.RetryPlan # Nil ->
                        [kind |-> "array", elems |-> cell(h, plan.Processors).elems]
                  [] p = "attempts" ->
                        [kind |-> "array", elems |-> IF tx.RetryAttempts = Nil THEN <<>>
                              ELSE cell(h, tx.RetryAttempts).elems]
                  [] p = "next" /\ tx.NextRetryAt # Nil -> cell(h, tx.NextRetryAt)
                  [] OTHER -> Free]]

\* The transaction a reader of the struct in slot k sees.
valueOf(h, k) ==
    LET tx == h[k]["tx"]
        plan == cell(h, tx.RetryPlan)
    IN  [ID |-> tx.ID, Status |-> tx.Status,
         RetryPlan |->
             IF tx.RetryPlan = Nil THEN None
             ELSE Some([MaxAttempts |-> plan.MaxAttempts,
                        ScheduledTimes |-> cell(h, plan.ScheduledTimes).elems,
                        Processors |-> cell(h, plan.Processors).elems]),
         RetryAttempts |-> IF tx.RetryAttempts = Nil THEN <<>>
                           ELSE cell(h, tx.RetryAttempts).elems,
         NextRetryAt |-> IF tx.NextRetryAt = Nil THEN None
                         ELSE Some(cell(h, tx.NextRetryAt).t)]

\* The transaction a caller builds in slot n. In full it is the one of
\* TestStore_DeepCopy: one failed attempt, next_retry_at and a plan of one
\* scheduled time and one processor. Otherwise it is the one of
\* newTestTransaction: no plan, no attempts slice, no next_retry_at.
fixture(h, id, n, full) ==
    [h EXCEPT ![n] =
        [p \in Parts |->
            CASE p = "tx" ->
                    [kind |-> "tx", ID |-> id, Status |-> StatusScheduled,
                     RetryPlan |-> IF full THEN at(n, "plan") ELSE Nil,
                     RetryAttempts |-> IF full THEN at(n, "attempts") ELSE Nil,
                     NextRetryAt |-> IF full THEN at(n, "next") ELSE Nil]
              [] p = "plan" /\ full ->
                    [kind |-> "plan", MaxAttempts |-> 3,
                     ScheduledTimes |-> at(n, "times"), Processors |-> at(n, "procs")]
              [] p = "times" /\ full -> [kind |-> "array", elems |-> <<1>>]
              [] p = "procs" /\ full -> [kind |-> "array", elems |-> <<"stripe_latam">>]
              [] p = "attempts" /\ full ->
                    [kind |-> "array",
                     elems |-> <<[AttemptNumber |-> 1, Success |-> FALSE]>>]
              [] p = "next" /\ full -> [kind |-> "time", t |-> 1]
              [] OTHER -> Free]]

\* The heap after a write through the pointer to the struct in slot k. A write of an element or through a pointer
\* changes the cell pointed to; append on a full slice allocates a new backing
\* array; a write that has nothing to write to leaves the heap as it is.
write(h, k, w) ==
    LET tx == h[k]["tx"]
        attempts == IF tx.RetryAttempts = Nil THEN <<>> ELSE cell(h, tx.RetryAttempts).elems
        plan == cell(h, tx.RetryPlan)
    IN  CASE w = "Status" -> [h EXCEPT ![k]["tx"].Status = StatusRecovered]
          [] w = "RetryAttempts[0]" ->
                IF attempts = <<>> THEN h
                ELSE [h EXCEPT ![tx.RetryAttempts.slot][tx.RetryAttempts.part].elems[1].Success
                                   = TRUE]
          [] w = "append" ->
                IF Len(attempts) >= 2 THEN h
                ELSE [h EXCEPT
                         ![k]["grown"] =
                             [kind |-> "array", elems |-> Append(attempts, [AttemptNumber |-> Len(attempts) + 1,
                                                     Success |-> TRUE])],
                         ![k]["tx"].RetryAttempts = at(k, "grown")]
          [] w = "ScheduledTimes[0]" ->
                IF tx.RetryPlan = Nil THEN h
                ELSE [h EXCEPT ![plan.ScheduledTimes.slot][plan.ScheduledTimes.part].elems[1]
                                   = 2]
          [] w = "Processors[0]" ->
                IF tx.RetryPlan = Nil THEN h
                ELSE [h EXCEPT ![plan.Processors.slot][plan.Processors.part].elems[1]
                                   = "adyen_apac"]
          [] w = "*NextRetryAt" ->
                IF tx.NextRetryAt = Nil THEN h
                ELSE [h EXCEPT ![tx.NextRetryAt.slot][tx.NextRetryAt.part].t = 2]
          [] OTHER -> [h EXCEPT ![k]["tx"].NextRetryAt = Nil]

\* The heap after the writes ws, one after the other.
RECURSIVE writeAll(_, _, _)
writeAll(h, k, ws) ==
    IF ws = <<>> THEN h ELSE writeAll(write(h, k, Head(ws)), k, Tail(ws))

\* fn(cp), cp in slot k: the heap it leaves and the error it returns. The
\* callbacks are the exhausted branch of ExecuteRetry and one that writes all
\* over its argument before it fails.
callback(h, k, fn) ==
    IF fn = "exhaust"
    THEN [heap |-> writeAll(h, k, <<"Status", "NextRetryAt">>), err |-> "nil"]
    ELSE [heap |-> writeAll(h, k, <<"Status", "RetryAttempts[0]", "ScheduledTimes[0]",
                                    "Processors[0]", "*NextRetryAt">>),
          err |-> "test rollback"]

\* The garbage collector: of heap h the cells stay that the store's pointers
\* ptrs and the callers' pointers hs reach.
collect(h, ptrs, hs) ==
    LET reached(k) ==
            {at(k, "tx")}
                \cup ({h[k]["tx"].RetryPlan, h[k]["tx"].RetryAttempts,
                       h[k]["tx"].NextRetryAt} \ {Nil})
                \cup (IF h[k]["tx"].RetryPlan = Nil THEN {}
                      ELSE {cell(h, h[k]["tx"].RetryPlan).ScheduledTimes,
                            cell(h, h[k]["tx"].RetryPlan).Processors})
        live == UNION {reached(k) : k \in hs \cup {ptrs[i] : i \in DOMAIN ptrs}}
    IN  [k \in Slots |-> [p \in Parts |-> IF at(k, p) \in live THEN h[k][p] ELSE Free]]

\* The stored ids Get(id), List(""), GetPendingRetries() and GetDueRetries(before)
\* select.
selected(op, id, before) ==
    CASE op = "Get" -> DOMAIN txPtr \cap {id}
      [] op = "List" -> DOMAIN txPtr
      [] op = "GetPendingRetries" -> pendingIDs \cap DOMAIN txPtr
      [] OTHER -> {i \in pendingIDs \cap DOMAIN txPtr :
                      /\ heap[txPtr[i]]["tx"].NextRetryAt # Nil
                      /\ ~(before < cell(heap, heap[txPtr[i]]["tx"].NextRetryAt).t)}

\* The copies a read hands out, of the structs in slots ks: the heap with them
\* and their slots.
RECURSIVE copyEach(_, _)
copyEach(h, ks) ==
    IF ks = {} THEN [heap |-> h, slots |-> {}]
    ELSE LET k == CHOOSE x \in ks : TRUE
             rest == copyEach(copyTransaction(h, k, new(h)), ks \ {k})
         IN  [heap |-> rest.heap, slots |-> rest.slots \cup {new(h)}]

\* What the store's methods leave alone at this level.
objectFrame ==
    <<retryStrategies, transactions, events, now, th, okCount, clears, mu, atomicStore,
      ctxDone, otherMu>>

-----------------------------------------------------------------------------
(* internal/webhook/notifier.go and internal/retry/simulator.go *)

\* A sink that records every event twice.
SendTwice(evs, tx, eventType, attemptNumber) ==
    LET e == [EventType |-> eventType, TransactionID |-> tx.ID,
              Status |-> tx.Status, AttemptNumber |-> attemptNumber]
    IN  evs \o <<e, e>>

\* Notifier.Send(tx, eventType, attemptNumber): the event appended to the log.
\* Its Status is the status of the transaction object the caller passes.
Send(evs, tx, eventType, attemptNumber) ==
    Append(evs, [EventType |-> eventType, TransactionID |-> tx.ID,
                 Status |-> tx.Status, AttemptNumber |-> attemptNumber])

\* The rolls rng.Float64() can give, in percent: a value of [0, 1).
Rolls == {0, 30, 99}

\* Simulator.ProcessPayment indexes PerAttemptRates[len-1] when the attempt has
\* no rate of its own: with no rate at all that is index -1, a run-time panic.
processPanics(strategies, declineCode) ==
    /\ declineCode \in DOMAIN strategies
    /\ Len(strategies[declineCode].PerAttemptRates) = 0

\* Simulator.ProcessPayment(declineCode, attemptNum, processor) for one roll:
\* SimResult.Success.
ProcessPayment(strategies, declineCode, attemptNum, roll) ==
    IF GetRetryStrategy(strategies, declineCode) = None THEN FALSE
    ELSE LET rates == strategies[declineCode].PerAttemptRates
             idx == IF attemptNum - 1 >= Len(rates) THEN Len(rates) - 1 ELSE attemptNum - 1
         IN  roll < rates[idx + 1]

-----------------------------------------------------------------------------
(* Threads: the API callers (one HTTP request each at a time) and the      *)
(* scheduler goroutine.                                                    *)

\* A thread between two operations. While it runs ExecuteRetry, id, tx,
\* attemptNum, success and finalStatus are the locals of that call and seen is
\* the status its first Get found; ret is what the call has just returned.
\* queue, processed and recovered are the locals of the loop around it, and
\* base is history: the attempts each transaction ProcessAllPending enumerated
\* had when the call started.
IdleThread ==
    [op |-> "idle", pc |-> "idle", id |-> 0, tx |-> None, attemptNum |-> 0,
     success |-> FALSE, finalStatus |-> "", queue |-> <<>>, processed |-> 0,
     recovered |-> 0, ret |-> "none", seen |-> "", base |-> <<>>]

\* No call has returned yet. err is the outcome of the call that returned last
\* and wraps the sentinel errors its error value matches under errors.Is.
NoReturn == [op |-> "none", id |-> 0, err |-> "none", seen |-> "", wraps |-> {}]

\* fmt.Errorf: the error it builds wraps the operands of its %w verbs and
\* nothing else. An error is modelled by the sentinels of its Unwrap chain, an
\* operand that is not an error by {}.
Errorf(verbs, operands) ==
    UNION {operands[i] : i \in {j \in DOMAIN verbs : verbs[j] = "%w"}}

\* errors.Is(err, target).
Is(err, target) == target \in err

\* The error Engine.Submit returns when SaveIfNotExists returned err
\* (engine.go 72-77 and 99-104).
submitError(err) ==
    IF Is(err, "AlreadyExists") THEN Errorf(<<"%s">>, <<{}>>)
    ELSE Errorf(<<"%s", "%w">>, <<{}, err>>)

\* The error ExecuteRetry returns for the outcome ret: every one of its
\* fmt.Errorf calls wraps the sentinel with %w (engine.go 132, 138, 141, 155,
\* 184, 188), and the error of UpdateFunc is returned as it is (engine.go 209).
executeRetryError(ret) ==
    IF ret \in {"nil", "panic"} THEN {} ELSE Errorf(<<"%s", "%w">>, <<{}, {ret}>>)

\* The process has exited (an unrecovered panic in the scheduler goroutine).
ExitedThread == [IdleThread EXCEPT !.op = "exited", !.pc = "exited"]

store == [transactions |-> transactions, pendingIDs |-> pendingIDs]

SetStore(st) ==
    /\ transactions' = st.transactions
    /\ pendingIDs' = st.pendingIDs

\* The locals of a call dropped, its outcome kept.
returned(l, ret) ==
    [l EXCEPT !.tx = None, !.attemptNum = 0, !.success = FALSE, !.finalStatus = "",
              !.ret = ret]

\* ExecuteRetry has returned ret to the thread with locals l: what its caller
\* does up to its next access to shared state.
\*  - the HTTP handler is done;
\*  - processDueRetries logs an error and goes on with the next due id;
\*  - ProcessAllPending breaks out of the inner loop on an error and goes on
\*    with the next pending id or, after the last, is about to return its
\*    counts, and otherwise counts the attempt and is about to re-read the
\*    transaction.
finish(l, ret) ==
    LET r == returned(l, ret)
        rest == Tail(l.queue)
        next == IF rest # <<>> THEN [r EXCEPT !.pc = "call", !.queue = rest]
                ELSE IF l.op = "pap" THEN [r EXCEPT !.pc = "return", !.queue = <<>>]
                ELSE [r EXCEPT !.op = "idle", !.pc = "idle", !.queue = <<>>]
    IN  CASE l.op = "retry" -> [r EXCEPT !.op = "idle", !.pc = "idle"]
          [] l.op = "tick" -> next
          [] l.op = "pap" ->
                IF ret # "nil" THEN next
                ELSE [r EXCEPT !.pc = "refresh", !.processed = @ + 1]

\* ExecuteRetry, phase A (engine.go 130-156): the snapshot and the
\* eligibility checks, for the thread with locals l.
executeRetryA(l, st, id) ==
    LET got == Get(st, id)
        l0 == [l EXCEPT !.id = id,
                        !.seen = IF got = None THEN "absent" ELSE got[1].Status]
    IN  IF got = None THEN finish(l0, "NotFound")
        ELSE IF ~isPendingStatus(got[1].Status) THEN finish(l0, "NotRetryable")
        ELSE IF got[1].RetryPlan = None THEN finish(l0, "NotRetryable")
        ELSE LET attemptNum == Len(got[1].RetryAttempts) + 1
                 l1 == [l0 EXCEPT !.tx = got, !.attemptNum = attemptNum]
             IN  IF attemptNum > got[1].RetryPlan[1].MaxAttempts
                 THEN [l1 EXCEPT !.pc = "exhausted_update"]
                 ELSE [l1 EXCEPT !.pc = "process"]

\* The RetryAttempt ExecuteRetry builds from its snapshot (engine.go 158-178).
newAttempt(tx, attemptNum, success) ==
    [AttemptNumber |-> attemptNum,
     Processor |-> tx.RetryPlan[1].Processors[attemptNum],
     ScheduledAt |-> tx.RetryPlan[1].ScheduledTimes[attemptNum],
     Success |-> success]

\* A commit that appends the attempt and leaves status and next_retry_at alone.
committedKeepingStatus(tx, attempt, attemptNum, success) ==
    [tx EXCEPT !.RetryAttempts = Append(@, attempt)]

\* The record the commit installs once its checks have passed.
committed(tx, attempt, attemptNum, success) ==
    LET appended == [tx EXCEPT !.RetryAttempts = Append(@, attempt)]
    IN  IF success
        THEN [appended EXCEPT !.Status = StatusRecovered, !.NextRetryAt = None]
        ELSE IF attemptNum >= tx.RetryPlan[1].MaxAttempts
        THEN [appended EXCEPT !.Status = StatusFailedFinal, !.NextRetryAt = None]
        ELSE [appended EXCEPT
                 !.Status = StatusRetrying,
                 !.NextRetryAt = Some(tx.RetryPlan[1].ScheduledTimes[attemptNum + 1])]

\* A commit that does not re-check the attempt count under the lock.
commitWithoutCountCheck(tx, attempt, attemptNum, success) ==
    IF tx.Status # StatusScheduled /\ tx.Status # StatusRetrying
    THEN [tx |-> tx, err |-> "NotRetryable"]
    ELSE [err |-> "nil", tx |-> committed(tx, attempt, attemptNum, success)]

\* A commit that re-checks nothing under the lock.
commitWithoutChecks(tx, attempt, attemptNum, success) ==
    [err |-> "nil", tx |-> committed(tx, attempt, attemptNum, success)]

\* The mutator of the commit (engine.go 182-208), applied to the stored record.
commitMutator(tx, attempt, attemptNum, success) ==
    IF tx.Status # StatusScheduled /\ tx.Status # StatusRetrying
    THEN [tx |-> tx, err |-> "NotRetryable"]
    ELSE IF Len(tx.RetryAttempts) + 1 # attemptNum
    THEN [tx |-> tx, err |-> "NotRetryable"]
    ELSE [err |-> "nil", tx |-> committed(tx, attempt, attemptNum, success)]

\* The mutator of the exhausted branch (engine.go 148-153).
exhaustedMutator(tx) ==
    [err |-> "nil",
     tx |-> [tx EXCEPT !.Status = StatusFailedFinal, !.NextRetryAt = None]]

\* A switch that takes its default branch whatever the status.
eventForDefaultOnly(finalStatus) == EventRetryFailed

\* The event type ExecuteRetry sends for the status its commit installed
\* (engine.go 214-234).
eventFor(finalStatus) ==
    CASE finalStatus = StatusRecovered -> EventRetrySucceeded
      [] finalStatus = StatusFailedFinal -> EventRetryExhausted
      [] OTHER -> EventRetryFailed

\* A Submit that stores every transaction as Scheduled, whatever its category.
newTransactionScheduled(strategies, id, code, processor, baseTime, outOfRange) ==
    [ID |-> id, OriginalProcessor |-> processor, DeclineCode |-> code,
     DeclineCategory |-> ClassifyDecline(strategies, code), Status |-> StatusScheduled,
     RetryPlan |-> None, RetryAttempts |-> <<>>, NextRetryAt |-> None]

\* The transaction Submit builds (engine.go 55-98).
newTransaction(strategies, id, code, processor, baseTime, outOfRange) ==
    LET category == ClassifyDecline(strategies, code)
        plan == BuildRetryPlan(strategies, code, processor, baseTime, outOfRange)
    IN  [ID |-> id, OriginalProcessor |-> processor, DeclineCode |-> code,
         DeclineCategory |-> category,
         Status |-> IF category = HardDecline THEN StatusRejected ELSE StatusScheduled,
         RetryPlan |-> IF category = HardDecline THEN None ELSE plan,
         RetryAttempts |-> <<>>,
         NextRetryAt |-> IF category = HardDecline THEN None
                         ELSE IF Len(plan[1].ScheduledTimes) > 0
                         THEN Some(plan[1].ScheduledTimes[1])
                         ELSE None]

-----------------------------------------------------------------------------
(* Inputs *)

SubmitCodes == {"stolen_card", "authentication_failed", "new_code"}
SubmitProcessors == {"stripe_latam"}

\* Overrides for a decline code the default catalog does not know: every
\* field omitted, and max_attempts, delays and per_attempt_rates given one
\* after the other.
NewCodeConfigs ==
    {ZeroConfig,
     [ZeroConfig EXCEPT !.MaxAttempts = 1],
     [ZeroConfig EXCEPT !.MaxAttempts = 1, !.Delays = <<"0s">>],
     [ZeroConfig EXCEPT !.MaxAttempts = 1, !.Delays = <<"0s">>, !.PerAttemptRates = <<50>>]}

OverrideInputs == {[c \in {"new_code"} |-> cfg] : cfg \in NewCodeConfigs}

-----------------------------------------------------------------------------
(* Initial state: main() before the first request *)

Init ==
    /\ retryStrategies = defaultRetryStrategies
    /\ transactions = EmptyStore.transactions
    /\ pendingIDs = EmptyStore.pendingIDs
    /\ events = <<>>
    /\ now = 0
    /\ th = [t \in Threads |-> IdleThread]
    /\ okCount = [id \in TxIDs |-> 0]
    /\ lastReturn = NoReturn
    /\ clears = 0
    /\ mu = [writer |-> 0, readers |-> {}]
    /\ atomicStore = EmptyStore
    /\ heap = emptyHeap
    /\ txPtr = <<>>
    /\ held = {}
    /\ writes = 0
    /\ ctxDone = FALSE
    /\ otherMu = [m \in {"simulator", "notifier"} |-> [writer |-> 0, readers |-> {}]]

-----------------------------------------------------------------------------
(* Actions *)

\* Thread t goes on as n, the record finish or executeRetryA computed: the
\* result n carries, if any, is the last return, and the thread keeps what its
\* next step reads.
Land(t, n) ==
    /\ th' = [th EXCEPT ![t] =
                 IF n.op = "idle" THEN IdleThread
                 ELSE IF n.ret = "none" THEN n
                 ELSE [n EXCEPT !.ret = "none", !.seen = "",
                                !.id = IF n.pc = "refresh" THEN n.id ELSE 0]]
    /\ lastReturn' = IF n.ret = "none" THEN lastReturn
                     ELSE [op |-> "ExecuteRetry", id |-> n.id, err |-> n.ret,
                           seen |-> n.seen, wraps |-> executeRetryError(n.ret)]

\* domain.ApplyStrategyOverrides(overrides). The strategy table is a package
\* variable without a lock: the configuration file is applied once, at
\* start-up, before the first transaction is submitted.
ApplyStrategyOverrides(overrides, order) ==
    /\ retryStrategies = defaultRetryStrategies
    /\ DOMAIN transactions = {} /\ events = <<>> /\ clears = 0
    /\ \A t \in Threads : th[t].op = "idle"
    /\ retryStrategies' = applyInOrder(retryStrategies, overrides, order).table
    /\ UNCHANGED <<transactions, pendingIDs, events, now, th, okCount, lastReturn, clears>>
    /\ UNCHANGED storeDetail

\* Engine.Submit up to the return of SaveIfNotExists (engine.go 40-105). A
\* panic of BuildRetryPlan ends the request before anything is stored. The
\* int64 an out-of-range float64 converts to is the smallest one on amd64 and
\* the largest on arm64.
Submit(t, id, code, processor) ==
    /\ th[t].op = "idle"
    /\ \E outOfRange \in {-MaxDuration - 1, MaxDuration} :
       LET category == ClassifyDecline(retryStrategies, code)
           ret(err) == [op |-> "Submit", id |-> id, err |-> err, seen |-> "",
                        wraps |-> IF err = "AlreadyExists" THEN submitError({err}) ELSE {}]
       IN  IF category = SoftDecline /\ buildPanics(retryStrategies[code])
           THEN /\ lastReturn' = ret("panic")
                /\ UNCHANGED <<transactions, pendingIDs, th>>
           ELSE LET tx == newTransaction(retryStrategies, id, code, processor, now,
                                         outOfRange)
                    r == SaveIfNotExists(store, tx)
                IN  /\ SetStore(r.store)
                    /\ IF r.err # "nil"
                       THEN lastReturn' = ret("AlreadyExists") /\ UNCHANGED th
                       ELSE IF category = HardDecline
                       THEN lastReturn' = ret("nil") /\ UNCHANGED th
                       ELSE /\ th' = [th EXCEPT ![t] =
                                         [IdleThread EXCEPT !.op = "submit", !.pc = "send",
                                                            !.id = id, !.tx = Some(tx)]]
                            /\ UNCHANGED lastReturn
    /\ UNCHANGED <<retryStrategies, events, now, okCount, clears>>
    /\ UNCHANGED storeDetail

\* Engine.Submit: notifier.Send of retry.scheduled and the return (engine.go 107-122).
SubmitSend(t) ==
    /\ th[t].op = "submit" /\ th[t].pc = "send"
    /\ events' = Send(events, th[t].tx[1], EventRetryScheduled, 0)
    /\ th' = [th EXCEPT ![t] = IdleThread]
    /\ lastReturn' = [op |-> "Submit", id |-> th[t].id, err |-> "nil", seen |-> "",
                      wraps |-> {}]
    /\ UNCHANGED <<retryStrategies, transactions, pendingIDs, now, okCount, clears>>
    /\ UNCHANGED storeDetail

\* TransactionHandler.Retry: a manual ExecuteRetry(id), phase A.
Retry(t, id) ==
    /\ th[t].op = "idle"
    /\ Land(t, executeRetryA([IdleThread EXCEPT !.op = "retry"], store, id))
    /\ UNCHANGED <<retryStrategies, transactions, pendingIDs, events, now, okCount, clears>>
    /\ UNCHANGED storeDetail

\* ExecuteRetry, the exhausted branch: the unconditional UpdateFunc, its error
\* dropped (engine.go 148-153).
ExhaustedUpdate(t) ==
    /\ th[t].pc = "exhausted_update"
    /\ SetStore(UpdateFunc(store, th[t].id,
                            [tx \in Copies(store, th[t].id) |-> exhaustedMutator(tx)]).store)
    /\ th' = [th EXCEPT ![t].pc = "exhausted_send"]
    /\ UNCHANGED <<retryStrategies, events, now, okCount, lastReturn, clears>>
    /\ UNCHANGED storeDetail

\* ExecuteRetry, the exhausted branch: Send and the return (engine.go 154-155).
ExhaustedSend(t) ==
    /\ th[t].pc = "exhausted_send"
    /\ events' = Send(events, th[t].tx[1], EventRetryExhausted, th[t].attemptNum - 1)
    /\ Land(t, finish(th[t], "Exhausted"))
    /\ UNCHANGED <<retryStrategies, transactions, pendingIDs, now, okCount, clears>>
    /\ UNCHANGED storeDetail

\* ExecuteRetry, phase B: the simulator call (engine.go 158-178). A panic in an
\* HTTP handler is recovered by net/http and ends the request; in the scheduler
\* goroutine it ends the process.
Process(t, roll) ==
    /\ th[t].pc = "process"
    /\ LET code == th[t].tx[1].DeclineCode
       IN  IF processPanics(retryStrategies, code)
           THEN /\ th' = IF t = Scheduler THEN [u \in Threads |-> ExitedThread]
                         ELSE [th EXCEPT ![t] = IdleThread]
                /\ lastReturn' = [op |-> "ExecuteRetry", id |-> th[t].id, err |-> "panic",
                                  wraps |-> {},
                                  seen |-> th[t].seen]
           ELSE /\ th' = [th EXCEPT ![t].pc = "commit",
                                    ![t].success =
                                        ProcessPayment(retryStrategies, code,
                                                       th[t].attemptNum, roll)]
                /\ UNCHANGED lastReturn
    /\ UNCHANGED <<retryStrategies, transactions, pendingIDs, events, now, okCount, clears>>
    /\ UNCHANGED storeDetail

\* ExecuteRetry, phase C: the commit under the store lock (engine.go 180-211).
Commit(t) ==
    /\ th[t].pc = "commit"
    /\ LET l == th[t]
           attempt == newAttempt(l.tx[1], l.attemptNum, l.success)
           r == UpdateFunc(store, l.id,
                           [tx \in Copies(store, l.id) |->
                               commitMutator(tx, attempt, l.attemptNum, l.success)])
       IN  /\ SetStore(r.store)
           /\ Land(t, IF r.err # "nil" THEN finish(l, r.err)
                      ELSE [l EXCEPT !.pc = "send",
                                     !.finalStatus = r.store.transactions[l.id].Status])
    /\ UNCHANGED <<retryStrategies, events, now, okCount, clears>>
    /\ UNCHANGED storeDetail

\* ExecuteRetry after a successful commit: Send and the return of nil
\* (engine.go 213-236).
CommitSend(t) ==
    /\ th[t].op # "submit" /\ th[t].pc = "send"
    /\ events' = Send(events, th[t].tx[1], eventFor(th[t].finalStatus), th[t].attemptNum)
    /\ Land(t, finish(th[t], "nil"))
    /\ okCount' = [okCount EXCEPT ![th[t].id] = @ + 1]
    /\ UNCHANGED <<retryStrategies, transactions, pendingIDs, now, clears>>
    /\ UNCHANGED storeDetail

\* The next ExecuteRetry of a loop (ProcessAllPending, processDueRetries), phase A.
Call(t) ==
    /\ th[t].pc = "call"
    /\ Land(t, executeRetryA(th[t], store, Head(th[t].queue)))
    /\ UNCHANGED <<retryStrategies, transactions, pendingIDs, events, now, okCount, clears>>
    /\ UNCHANGED storeDetail

\* Engine.ProcessAllPending: GetPendingRetries (engine.go 240-242); the store
\* ranges over a map, so the order is any. With nothing pending it returns.
ProcessAllPending(t, order) ==
    /\ th[t].op = "idle"
    /\ order \in Orders(GetPendingRetries(store))
    /\ order # <<>>
    /\ th' = [th EXCEPT ![t] =
                 [IdleThread EXCEPT
                     !.op = "pap", !.pc = "call", !.queue = order,
                     !.base = [id \in GetPendingRetries(store) |->
                                  Len(transactions[id].RetryAttempts)]]]
    /\ UNCHANGED <<retryStrategies, transactions, pendingIDs, events, now, okCount,
                   lastReturn, clears>>
    /\ UNCHANGED storeDetail

\* Engine.ProcessAllPending: the re-read after a committed attempt and the
\* loop's decision (engine.go 249-259).
Refresh(t) ==
    /\ th[t].pc = "refresh"
    /\ LET l == th[t]
           refreshed == Get(store, l.id)
           rest == Tail(l.queue)
           break == IF rest = <<>> THEN [l EXCEPT !.pc = "return", !.queue = <<>>, !.id = 0]
                    ELSE [l EXCEPT !.pc = "call", !.queue = rest, !.id = 0]
       IN  th' = [th EXCEPT ![t] =
                     IF refreshed = None THEN break
                     ELSE IF refreshed[1].Status = StatusRecovered
                     THEN [break EXCEPT !.recovered = @ + 1]
                     ELSE IF refreshed[1].Status = StatusFailedFinal THEN break
                     ELSE [l EXCEPT !.pc = "call", !.id = 0]]
    /\ UNCHANGED <<retryStrategies, transactions, pendingIDs, events, now, okCount,
                   lastReturn, clears>>
    /\ UNCHANGED storeDetail

\* Engine.ProcessAllPending: return processed, recovered (engine.go 262).
ProcessAllPendingReturn(t) ==
    /\ th[t].op = "pap" /\ th[t].pc = "return"
    /\ th' = [th EXCEPT ![t] = IdleThread]
    /\ UNCHANGED <<retryStrategies, transactions, pendingIDs, events, now, okCount,
                   lastReturn, clears>>
    /\ UNCHANGED storeDetail

\* Scheduler.processDueRetries on a tick: GetDueRetries(now), in any order.
\* A tick with nothing due does nothing.
Tick(order) ==
    /\ th[Scheduler].op = "idle"
    /\ order \in Orders(GetDueRetries(store, now))
    /\ order # <<>>
    /\ th' = [th EXCEPT ![Scheduler] =
                 [IdleThread EXCEPT !.op = "tick", !.pc = "call", !.queue = order]]
    /\ UNCHANGED <<retryStrategies, transactions, pendingIDs, events, now, okCount,
                   lastReturn, clears>>
    /\ UNCHANGED storeDetail

\* Every instant a stored plan schedules.
ScheduledInstants ==
    UNION {{transactions[id].RetryPlan[1].ScheduledTimes[i] :
                i \in 1..Len(transactions[id].RetryPlan[1].ScheduledTimes)} :
           id \in {i \in DOMAIN transactions : transactions[i].RetryPlan # None}}

\* Time passes, up to an instant something is scheduled for.
AdvanceTime(tm) ==
    /\ tm \in ScheduledInstants
    /\ tm > now
    /\ now' = tm
    /\ UNCHANGED <<retryStrategies, transactions, pendingIDs, events, th, okCount,
                   lastReturn, clears>>
    /\ UNCHANGED storeDetail

\* POST /api/reset: Store.Clear.
Reset(t) ==
    /\ th[t].op = "idle"
    /\ clears < MaxClears
    /\ clears' = clears + 1
    /\ SetStore(Clear(store))
    /\ okCount' = [id \in TxIDs |-> 0]
    /\ th' = [th EXCEPT ![t] = [IdleThread EXCEPT !.op = "reset", !.pc = "clear_events"]]
    /\ UNCHANGED <<retryStrategies, events, now, lastReturn>>
    /\ UNCHANGED storeDetail

\* POST /api/reset: Notifier.Clear.
ResetEvents(t) ==
    /\ th[t].op = "reset" /\ th[t].pc = "clear_events"
    /\ events' = <<>>
    /\ th' = [th EXCEPT ![t] = IdleThread]
    /\ UNCHANGED <<retryStrategies, transactions, pendingIDs, now, okCount, lastReturn,
                   clears>>
    /\ UNCHANGED storeDetail

-----------------------------------------------------------------------------
(* Specifications *)

\* The engine under its API callers and the scheduler.
Next ==
    \/ \E ov \in OverrideInputs : \E order \in Orders(DOMAIN ov) :
          ApplyStrategyOverrides(ov, order)
    \/ \E t \in Callers, id \in TxIDs, code \in SubmitCodes, p \in SubmitProcessors :
          Submit(t, id, code, p)
    \/ \E t \in Callers : SubmitSend(t)
    \/ \E t \in Callers, id \in TxIDs : Retry(t, id)
    \/ \E t \in Threads : ExhaustedUpdate(t)
    \/ \E t \in Threads : ExhaustedSend(t)
    \/ \E t \in Threads, roll \in Rolls : Process(t, roll)
    \/ \E t \in Threads : Commit(t)
    \/ \E t \in Threads : CommitSend(t)
    \/ \E t \in Threads : Call(t)
    \/ \E t \in Callers : \E order \in Orders(GetPendingRetries(store)) :
          ProcessAllPending(t, order)
    \/ \E t \in Callers : Refresh(t)
    \/ \E t \in Callers : ProcessAllPendingReturn(t)
    \/ \E order \in Orders(GetDueRetries(store, now)) : Tick(order)
    \/ \E tm \in ScheduledInstants : AdvanceTime(tm)

Spec == Init /\ [][Next]_vars

\* Submit and manual retries racing with the reset endpoint.
NextReset ==
    \/ \E ov \in OverrideInputs : \E order \in Orders(DOMAIN ov) :
          ApplyStrategyOverrides(ov, order)
    \/ \E t \in Callers, id \in TxIDs, code \in SubmitCodes, p \in SubmitProcessors :
          Submit(t, id, code, p)
    \/ \E t \in Callers : SubmitSend(t)
    \/ \E t \in Callers, id \in TxIDs : Retry(t, id)
    \/ \E t \in Callers : ExhaustedUpdate(t)
    \/ \E t \in Callers : ExhaustedSend(t)
    \/ \E t \in Callers, roll \in Rolls : Process(t, roll)
    \/ \E t \in Callers : Commit(t)
    \/ \E t \in Callers : CommitSend(t)
    \/ \E t \in Callers : Reset(t)
    \/ \E t \in Callers : ResetEvents(t)

SpecReset == Init /\ [][NextReset]_vars

-----------------------------------------------------------------------------
(* internal/store/memory.go, statement by statement under its RWMutex *)

NumStoreIDs == 2
MaxStoredAttempts == 1

StoreIDs == 1..NumStoreIDs
StoreInstants == {1, 2}
StoreStatuses == {StatusScheduled, StatusRecovered}

\* newTestTransaction(id, status, category), next_retry_at set or not.
newTestTransaction(id, status, next) ==
    [ID |-> id, OriginalProcessor |-> "stripe_latam", DeclineCode |-> "insufficient_funds",
     DeclineCategory |-> SoftDecline, Status |-> status, RetryPlan |-> None,
     RetryAttempts |-> <<>>, NextRetryAt |-> next]

StoreTxs ==
    {newTestTransaction(id, status, next) :
        id \in StoreIDs, status \in StoreStatuses,
        next \in {None} \cup {Some(i) : i \in StoreInstants}}

\* The callbacks handed to UpdateFunc: one that appends an attempt and
\* recovers, one that changes the status and then fails, one that sets
\* Retrying, one that makes the record terminal as the exhausted branch does.
Mutators == {"recover", "rollback", "retrying", "exhaust"}

\* fn(cp): the record the callback leaves in cp and the error it returns.
applyMutator(fn, cp) ==
    CASE fn = "recover" ->
            [tx |-> [cp EXCEPT !.Status = StatusRecovered,
                               !.RetryAttempts =
                                   Append(@, [AttemptNumber |-> Len(@) + 1,
                                              Processor |-> cp.OriginalProcessor,
                                              ScheduledAt |-> 0, Success |-> TRUE])],
             err |-> "nil"]
      [] fn = "rollback" ->
            [tx |-> [cp EXCEPT !.Status = StatusRecovered], err |-> "test rollback"]
      [] fn = "retrying" ->
            [tx |-> [cp EXCEPT !.Status = StatusRetrying], err |-> "nil"]
      [] OTHER -> exhaustedMutator(cp)

WriterOps == {"Save", "SaveIfNotExists", "UpdateFunc", "Clear"}
ReaderOps == {"Get", "GetPendingRetries", "GetDueRetries"}

\* The calls of the store's API, with their arguments.
StoreCalls ==
    {[op |-> op, id |-> tx.ID, tx |-> Some(tx), fn |-> "", before |-> 0] :
        op \in {"Save", "SaveIfNotExists"}, tx \in StoreTxs}
    \cup {[op |-> "UpdateFunc", id |-> id, tx |-> None, fn |-> fn, before |-> 0] :
            id \in StoreIDs, fn \in Mutators}
    \cup {[op |-> "Get", id |-> id, tx |-> None, fn |-> "", before |-> 0] : id \in StoreIDs}
    \cup {[op |-> "GetDueRetries", id |-> 0, tx |-> None, fn |-> "", before |-> b] :
            b \in StoreInstants}
    \cup {[op |-> op, id |-> 0, tx |-> None, fn |-> "", before |-> 0] :
            op \in {"GetPendingRetries", "Clear"}}

\* A goroutine outside the store, and the one inside call c at statement pc.
StoreIdle ==
    [op |-> "idle", pc |-> "idle", id |-> 0, tx |-> None, fn |-> "", before |-> 0,
     err |-> "nil", result |-> {}]
inCall(c, pc) ==
    [op |-> c.op, pc |-> pc, id |-> c.id, tx |-> c.tx, fn |-> c.fn, before |-> c.before,
     err |-> "nil", result |-> {}]

\* A lock that lets every writer in.
lockNotTaken(m) == TRUE

\* sync.RWMutex: Lock waits for the writer and the readers to leave, RLock for
\* the writer.
canLock(m) == m.writer = 0 /\ m.readers = {}
canRLock(m) == m.writer = 0

\* The store a writer call leaves when nothing runs between its statements.
atomically(st, c) ==
    CASE c.op = "Save" -> Save(st, c.tx[1])
      [] c.op = "SaveIfNotExists" -> SaveIfNotExists(st, c.tx[1]).store
      [] c.op = "UpdateFunc" ->
            UpdateFunc(st, c.id, [tx \in Copies(st, c.id) |-> applyMutator(c.fn, tx)]).store
      [] OTHER -> Clear(st)

\* The first statement of a writer call after s.mu.Lock().
firstStatement(op) ==
    CASE op = "Save" -> "insert"
      [] op = "SaveIfNotExists" -> "exists"
      [] op = "UpdateFunc" -> "lookup"
      [] OTHER -> "clear_map"

\* What the store's statements leave alone.
storeFrame ==
    <<retryStrategies, events, now, okCount, clears, heap, txPtr, held, writes, ctxDone,
      otherMu>>

InitStore ==
    /\ retryStrategies = defaultRetryStrategies
    /\ transactions = EmptyStore.transactions
    /\ pendingIDs = EmptyStore.pendingIDs
    /\ events = <<>>
    /\ now = 0
    /\ th = [t \in Callers |-> StoreIdle]
    /\ okCount = [id \in TxIDs |-> 0]
    /\ lastReturn = [op |-> "none", id |-> 0, err |-> "none", result |-> {}]
    /\ clears = 0
    /\ mu = [writer |-> 0, readers |-> {}]
    /\ atomicStore = EmptyStore
    /\ heap = emptyHeap
    /\ txPtr = <<>>
    /\ held = {}
    /\ writes = 0
    /\ ctxDone = FALSE
    /\ otherMu = [m \in {"simulator", "notifier"} |-> [writer |-> 0, readers |-> {}]]

\* A writer call: s.mu.Lock(). The append of "recover" is offered while the
\* record has room for it.
Lock(t, c) ==
    /\ th[t].op = "idle"
    /\ c.op \in WriterOps
    /\ (c.fn = "recover" /\ c.id \in DOMAIN transactions) =>
           Len(transactions[c.id].RetryAttempts) < MaxStoredAttempts
    /\ canLock(mu)
    /\ mu' = [mu EXCEPT !.writer = t]
    /\ atomicStore' = atomically(atomicStore, c)
    /\ th' = [th EXCEPT ![t] = inCall(c, firstStatement(c.op))]
    /\ UNCHANGED <<transactions, pendingIDs, lastReturn>>
    /\ UNCHANGED storeFrame

\* A reader call: s.mu.RLock().
RLock(t, c) ==
    /\ th[t].op = "idle"
    /\ c.op \in ReaderOps
    /\ canRLock(mu)
    /\ mu' = [mu EXCEPT !.readers = @ \cup {t}]
    /\ th' = [th EXCEPT ![t] = inCall(c, "read")]
    /\ UNCHANGED <<transactions, pendingIDs, lastReturn, atomicStore>>
    /\ UNCHANGED storeFrame

\* SaveIfNotExists: the lookup of tx.ID (memory.go 193-195).
Exists(t) ==
    /\ th[t].pc = "exists"
    /\ th' = [th EXCEPT ![t] =
                 IF th[t].id \in DOMAIN transactions
                 THEN [@ EXCEPT !.pc = "unlock", !.err = "AlreadyExists"]
                 ELSE [@ EXCEPT !.pc = "insert"]]
    /\ UNCHANGED <<transactions, pendingIDs, lastReturn, mu, atomicStore>>
    /\ UNCHANGED storeFrame

\* UpdateFunc: the lookup of id and cp := copyTransaction(tx) (memory.go 208-212).
Lookup(t) ==
    /\ th[t].pc = "lookup"
    /\ th' = [th EXCEPT ![t] =
                 IF th[t].id \notin DOMAIN transactions
                 THEN [@ EXCEPT !.pc = "unlock", !.err = "NotFound"]
                 ELSE [@ EXCEPT !.pc = "fn", !.tx = Some(transactions[th[t].id])]]
    /\ UNCHANGED <<transactions, pendingIDs, lastReturn, mu, atomicStore>>
    /\ UNCHANGED storeFrame

\* UpdateFunc: fn(cp), which changes cp and returns nil or an error
\* (memory.go 213-215).
Mutate(t) ==
    /\ th[t].pc = "fn"
    /\ LET r == applyMutator(th[t].fn, th[t].tx[1])
       IN  th' = [th EXCEPT ![t] =
                     [@ EXCEPT !.tx = Some(r.tx), !.err = r.err,
                               !.pc = IF r.err = "nil" THEN "insert" ELSE "unlock"]]
    /\ UNCHANGED <<transactions, pendingIDs, lastReturn, mu, atomicStore>>
    /\ UNCHANGED storeFrame

\* s.transactions[id] = copyTransaction(...) of Save, SaveIfNotExists and
\* UpdateFunc (memory.go 183, 196, 216).
Insert(t) ==
    /\ th[t].pc = "insert"
    /\ transactions' = put(transactions, th[t].id, th[t].tx[1])
    /\ th' = [th EXCEPT ![t].pc = "index"]
    /\ UNCHANGED <<pendingIDs, lastReturn, mu, atomicStore>>
    /\ UNCHANGED storeFrame

\* s.updatePendingIndex(id, status) of Save, SaveIfNotExists and UpdateFunc
\* (memory.go 184, 197, 217).
Index(t) ==
    /\ th[t].pc = "index"
    /\ pendingIDs' = updatePendingIndex(pendingIDs, th[t].id, th[t].tx[1].Status)
    /\ th' = [th EXCEPT ![t].pc = "unlock"]
    /\ UNCHANGED <<transactions, lastReturn, mu, atomicStore>>
    /\ UNCHANGED storeFrame

\* Clear: s.transactions = make(...) (memory.go 333).
ClearMap(t) ==
    /\ th[t].pc = "clear_map"
    /\ transactions' = EmptyStore.transactions
    /\ th' = [th EXCEPT ![t].pc = "clear_index"]
    /\ UNCHANGED <<pendingIDs, lastReturn, mu, atomicStore>>
    /\ UNCHANGED storeFrame

\* Clear: s.pendingIDs = make(...) (memory.go 334).
ClearIndex(t) ==
    /\ th[t].pc = "clear_index"
    /\ pendingIDs' = EmptyStore.pendingIDs
    /\ th' = [th EXCEPT ![t].pc = "unlock"]
    /\ UNCHANGED <<transactions, lastReturn, mu, atomicStore>>
    /\ UNCHANGED storeFrame

\* The deferred s.mu.Unlock() and the return of a writer call.
Unlock(t) ==
    /\ th[t].pc = "unlock"
    /\ mu' = [mu EXCEPT !.writer = IF @ = t THEN 0 ELSE @]
    /\ lastReturn' = [op |-> th[t].op, id |-> th[t].id, err |-> th[t].err, result |-> {}]
    /\ th' = [th EXCEPT ![t] = StoreIdle]
    /\ UNCHANGED <<transactions, pendingIDs, atomicStore>>
    /\ UNCHANGED storeFrame

\* The body of Get, GetPendingRetries and GetDueRetries: the copies it
\* collects (memory.go 225-229, 264-270, 279-289).
Read(t) ==
    /\ th[t].pc = "read"
    /\ LET ids == CASE th[t].op = "Get" -> DOMAIN transactions \cap {th[t].id}
                    [] th[t].op = "GetPendingRetries" -> GetPendingRetries(store)
                    [] OTHER -> GetDueRetries(store, th[t].before)
       IN  th' = [th EXCEPT ![t] =
                     [@ EXCEPT !.pc = "runlock",
                               !.result = {transactions[id] : id \in ids},
                               !.err = IF th[t].op = "Get" /\ Get(store, th[t].id) = None
                                       THEN "NotFound" ELSE "nil"]]
    /\ UNCHANGED <<transactions, pendingIDs, lastReturn, mu, atomicStore>>
    /\ UNCHANGED storeFrame

\* The deferred s.mu.RUnlock() and the return of a reader call.
RUnlock(t) ==
    /\ th[t].pc = "runlock"
    /\ mu' = [mu EXCEPT !.readers = @ \ {t}]
    /\ lastReturn' = [op |-> th[t].op, id |-> th[t].id, err |-> th[t].err,
                      result |-> th[t].result]
    /\ th' = [th EXCEPT ![t] = StoreIdle]
    /\ UNCHANGED <<transactions, pendingIDs, atomicStore>>
    /\ UNCHANGED storeFrame

\* The store under concurrent callers of its API.
NextStore ==
    \/ \E t \in Callers, c \in StoreCalls : Lock(t, c)
    \/ \E t \in Callers, c \in StoreCalls : RLock(t, c)
    \/ \E t \in Callers : Exists(t)
    \/ \E t \in Callers : Lookup(t)
    \/ \E t \in Callers : Mutate(t)
    \/ \E t \in Callers : Insert(t)
    \/ \E t \in Callers : Index(t)
    \/ \E t \in Callers : ClearMap(t)
    \/ \E t \in Callers : ClearIndex(t)
    \/ \E t \in Callers : Unlock(t)
    \/ \E t \in Callers : Read(t)
    \/ \E t \in Callers : RUnlock(t)

SpecStore == InitStore /\ [][NextStore]_vars

-----------------------------------------------------------------------------
(* The store and the holders of pointers to what it was passed or handed out *)

\* A caller builds a transaction.
CallerNew(id, full) ==
    /\ Cardinality(held) < MaxHeld
    /\ heap' = fixture(heap, id, new(heap), full)
    /\ held' = held \cup {new(heap)}
    /\ UNCHANGED <<txPtr, pendingIDs, lastReturn, writes>>
    /\ UNCHANGED objectFrame

\* A caller writes through a pointer it holds.
CallerWrite(k, w) ==
    /\ k \in held
    /\ writes < MaxWrites
    /\ write(heap, k, w) # heap
    /\ heap' = collect(write(heap, k, w), txPtr, held)
    /\ writes' = writes + 1
    /\ UNCHANGED <<txPtr, held, pendingIDs, lastReturn>>
    /\ UNCHANGED objectFrame

\* A caller lets go of a pointer.
CallerDrop(k) ==
    /\ k \in held
    /\ held' = held \ {k}
    /\ heap' = collect(heap, txPtr, held')
    /\ UNCHANGED <<txPtr, pendingIDs, lastReturn, writes>>
    /\ UNCHANGED objectFrame

\* Store.Save(tx) and Store.SaveIfNotExists(tx), tx the struct in slot k.
SaveObject(op, k) ==
    /\ k \in held
    /\ LET id == heap[k]["tx"].ID
       IN  IF op = "SaveIfNotExists" /\ id \in DOMAIN txPtr
           THEN UNCHANGED <<heap, txPtr, pendingIDs>>
           ELSE /\ txPtr' = put(txPtr, id, new(heap))
                /\ heap' = collect(copyTransaction(heap, k, new(heap)), txPtr', held)
                /\ pendingIDs' = updatePendingIndex(pendingIDs, id, heap[k]["tx"].Status)
    /\ UNCHANGED <<held, lastReturn, writes>>
    /\ UNCHANGED objectFrame

\* Store.UpdateFunc(id, fn). The callback may keep the pointer it was given.
UpdateObject(id, fn, keep) ==
    /\ keep => Cardinality(held) < MaxHeld
    /\ IF id \notin DOMAIN txPtr
       THEN /\ lastReturn' = [op |-> "UpdateFunc", id |-> id, err |-> "NotFound"]
            /\ UNCHANGED <<heap, txPtr, held, pendingIDs>>
       ELSE LET cp == new(heap)
                called == callback(copyTransaction(heap, txPtr[id], cp), cp, fn)
                saved == new(called.heap)
            IN  /\ held' = IF keep THEN held \cup {cp} ELSE held
                /\ lastReturn' = [op |-> "UpdateFunc", id |-> id, err |-> called.err]
                /\ IF called.err # "nil"
                   THEN /\ heap' = collect(called.heap, txPtr, held')
                        /\ UNCHANGED <<txPtr, pendingIDs>>
                   ELSE /\ txPtr' = put(txPtr, id, saved)
                        /\ heap' = collect(copyTransaction(called.heap, cp, saved),
                                           txPtr', held')
                        /\ pendingIDs' = updatePendingIndex(pendingIDs, id,
                                                            called.heap[cp]["tx"].Status)
    /\ UNCHANGED writes
    /\ UNCHANGED objectFrame

\* Store.Get(id), List(""), GetPendingRetries() and GetDueRetries(before): the
\* caller holds the copies returned.
ReadObjects(op, id, before) ==
    /\ selected(op, id, before) # {}
    /\ LET r == copyEach(heap, {txPtr[i] : i \in selected(op, id, before)})
       IN  /\ Cardinality(held \cup r.slots) <= MaxHeld
           /\ heap' = r.heap
           /\ held' = held \cup r.slots
    /\ UNCHANGED <<txPtr, pendingIDs, lastReturn, writes>>
    /\ UNCHANGED objectFrame

\* The store and the callers that hold pointers to what they passed in or
\* were handed out.
NextObjects ==
    \/ \E id \in TxIDs, full \in BOOLEAN : CallerNew(id, full)
    \/ \E k \in held :
          \E w \in {"Status", "RetryAttempts[0]", "append", "ScheduledTimes[0]",
                    "Processors[0]", "*NextRetryAt", "NextRetryAt"} : CallerWrite(k, w)
    \/ \E k \in held : CallerDrop(k)
    \/ \E op \in {"Save", "SaveIfNotExists"}, k \in held : SaveObject(op, k)
    \/ \E id \in TxIDs, fn \in {"exhaust", "rollback"}, keep \in BOOLEAN :
          UpdateObject(id, fn, keep)
    \/ \E id \in TxIDs : ReadObjects("Get", id, 0)
    \/ \E op \in {"List", "GetPendingRetries"} : ReadObjects(op, 0, 0)
    \/ \E before \in StoreInstants : ReadObjects("GetDueRetries", 0, before)

SpecObjects == InitStore /\ [][NextObjects]_vars

-----------------------------------------------------------------------------
(* Properties *)

PendingStatuses == {StatusScheduled, StatusRetrying}
TerminalStatuses == {StatusRecovered, StatusFailedFinal, StatusRejected}

\* The threads inside ExecuteRetry(id) that have taken their snapshot.
InRetry(id) ==
    {t \in Threads : th[t].id = id /\ th[t].op # "submit"
                     /\ th[t].pc \in {"process", "commit", "send",
                                      "exhausted_update", "exhausted_send"}}

\* The ExecuteRetry(id) calls that have committed and not returned yet.
Committed(id) == {t \in InRetry(id) : th[t].pc = "send"}

\* The last call to return was an ExecuteRetry(id) whose snapshot had one of statuses.
RetryReturned(id, statuses) ==
    lastReturn.op = "ExecuteRetry" /\ lastReturn.id = id /\ lastReturn.seen \in statuses

\* C1: when concurrent ExecuteRetry calls target one pending transaction, the
\* calls that return nil are as many as the attempts recorded, at least one
\* and at most max_attempts, and every other call returns NotRetryable. (A
\* call that has committed and not returned yet counts with those that
\* returned nil; "at least one" is read at the return of a call.)
C1_ConcurrentRetries ==
    \A id \in DOMAIN transactions :
        LET tx == transactions[id]
        IN  /\ okCount[id] + Cardinality(Committed(id)) = Len(tx.RetryAttempts)
            /\ tx.RetryPlan # None => Len(tx.RetryAttempts) <= tx.RetryPlan[1].MaxAttempts
            /\ RetryReturned(id, PendingStatuses) =>
                  /\ lastReturn.err \in {"nil", "NotRetryable"}
                  /\ Len(tx.RetryAttempts) >= 1

\* C2: no record holds more attempts than its plan allows, under any
\* interleaving of Submit, ExecuteRetry, ProcessAllPending and scheduler ticks.
C2_AttemptsBounded ==
    \A id \in DOMAIN transactions :
        LET tx == transactions[id]
        IN  IF tx.RetryPlan = None THEN tx.RetryAttempts = <<>>
            ELSE Len(tx.RetryAttempts) <= tx.RetryPlan[1].MaxAttempts

\* A record is full while another call, with a stale snapshot, is about to commit.
C2_Witness ==
    \E id \in DOMAIN transactions : \E t \in Threads :
        /\ transactions[id].RetryPlan # None
        /\ transactions[id].RetryPlan[1].MaxAttempts > 0
        /\ Len(transactions[id].RetryAttempts) = transactions[id].RetryPlan[1].MaxAttempts
        /\ th[t].pc = "commit" /\ th[t].id = id

\* C3: the attempt_number values of a record are 1..len(retry_attempts), in
\* order, without a gap or a duplicate.
C3_AttemptNumbers ==
    \A id \in DOMAIN transactions :
        \A i \in 1..Len(transactions[id].RetryAttempts) :
            transactions[id].RetryAttempts[i].AttemptNumber = i

\* Two attempts are recorded and a racing call has just been turned away.
C3_Witness ==
    \E id \in DOMAIN transactions :
        /\ Len(transactions[id].RetryAttempts) >= 2
        /\ RetryReturned(id, PendingStatuses)
        /\ lastReturn.err = "NotRetryable"

\* C4: a stored transaction is Rejected exactly when its decline category is
\* hard, and then it has no plan and no attempt; an ExecuteRetry on it returns
\* NotRetryable and never gets to the processor call.
C4_HardNeverRetried ==
    /\ \A id \in DOMAIN transactions :
          LET tx == transactions[id]
          IN  /\ tx.Status = StatusRejected <=> tx.DeclineCategory = HardDecline
              /\ tx.Status = StatusRejected =>
                    tx.RetryPlan = None /\ tx.RetryAttempts = <<>>
              /\ RetryReturned(id, {StatusRejected}) => lastReturn.err = "NotRetryable"
    /\ \A t \in Threads : th[t].tx # None => th[t].tx[1].Status # StatusRejected

\* C5: of the Submit calls that share an id exactly one stores the transaction
\* and returns nil, each other returns AlreadyExists, and the record keeps the
\* content of the first.
C5_SubmitOnce ==
    [][\A id \in TxIDs :
          \A t \in Callers, code \in SubmitCodes, p \in SubmitProcessors :
              Submit(t, id, code, p) =>
                  IF id \in DOMAIN transactions
                  THEN /\ transactions'[id] = transactions[id]
                       /\ lastReturn'.op = "Submit" /\ lastReturn'.err = "AlreadyExists"
                  ELSE /\ id \in DOMAIN transactions'
                       /\ transactions'[id].DeclineCode = code
                       /\ \/ lastReturn'.op = "Submit" /\ lastReturn'.err = "nil"
                          \/ th'[t].op = "submit"]_vars

\* C6: a Submit of an id that is stored has no side effect: the record and
\* the pending index stay as they are and no event is recorded, then or later.
C6_DuplicateSubmitNoEffect ==
    [][\A id \in DOMAIN transactions :
          \A t \in Callers, code \in SubmitCodes, p \in SubmitProcessors :
              Submit(t, id, code, p) =>
                  /\ transactions' = transactions
                  /\ pendingIDs' = pendingIDs
                  /\ events' = events
                  /\ th' = th]_vars

\* A Submit was turned away on a record that is pending and has attempts.
C6_Witness ==
    \E id \in pendingIDs :
        /\ lastReturn.op = "Submit" /\ lastReturn.id = id
        /\ lastReturn.err = "AlreadyExists"
        /\ id \in DOMAIN transactions
        /\ transactions[id].RetryAttempts # <<>>

C8_Recovered ==
    \A id \in DOMAIN transactions :
        LET tx == transactions[id]
            n == Len(tx.RetryAttempts)
        IN  tx.Status = StatusRecovered =>
                /\ n >= 1
                /\ tx.RetryAttempts[n].Success
                /\ \A i \in 1..(n - 1) : ~tx.RetryAttempts[i].Success
                /\ tx.NextRetryAt = None

\* A record recovered on its second attempt.
C8_Witness ==
    \E id \in DOMAIN transactions :
        /\ transactions[id].Status = StatusRecovered
        /\ Len(transactions[id].RetryAttempts) = 2

\* C9: a FailedFinal record has max_attempts attempts, none of them
\* successful, and no next_retry_at.
C9_FailedFinal ==
    \A id \in DOMAIN transactions :
        LET tx == transactions[id]
        IN  tx.Status = StatusFailedFinal =>
                /\ tx.RetryPlan # None
                /\ Len(tx.RetryAttempts) = tx.RetryPlan[1].MaxAttempts
                /\ \A i \in 1..Len(tx.RetryAttempts) : ~tx.RetryAttempts[i].Success
                /\ tx.NextRetryAt = None

\* C10: a Scheduled record has no attempt and next_retry_at = scheduled_times[0];
\* a Retrying record has 0 < len(retry_attempts) < max_attempts and
\* next_retry_at = scheduled_times[len(retry_attempts)].
C10_PendingShape ==
    \A id \in DOMAIN transactions :
        LET tx == transactions[id]
            n == Len(tx.RetryAttempts)
        IN  /\ tx.Status = StatusScheduled =>
                /\ n = 0
                /\ tx.RetryPlan # None
                /\ Len(tx.RetryPlan[1].ScheduledTimes) >= 1
                /\ tx.NextRetryAt = Some(tx.RetryPlan[1].ScheduledTimes[1])
            /\ tx.Status = StatusRetrying =>
                /\ tx.RetryPlan # None
                /\ 0 < n /\ n < tx.RetryPlan[1].MaxAttempts
                /\ tx.NextRetryAt = Some(tx.RetryPlan[1].ScheduledTimes[n + 1])

\* The process runs: the scheduler goroutine has not panicked.
Alive == \A t \in Threads : th[t].op # "exited"

\* The positions in the event log of the events ExecuteRetry recorded for the
\* committed attempt n of id.
AttemptEvents(id, n) ==
    {i \in 1..Len(events) : /\ events[i].TransactionID = id
                            /\ events[i].EventType # EventRetryScheduled
                            /\ events[i].AttemptNumber = n}

\* The event type that goes with attempt n of tx: the status its commit installed.
AttemptEventType(tx, n) ==
    IF tx.RetryAttempts[n].Success THEN EventRetrySucceeded
    ELSE IF n >= tx.RetryPlan[1].MaxAttempts THEN EventRetryExhausted
    ELSE EventRetryFailed

\* C11: every committed attempt has exactly one event, recorded by the call that
\* committed it (none while that call is between its commit and its Send), of
\* the type of the status the commit installed and with the attempt's number;
\* no event carries the number of an attempt that was not committed, so a call
\* that returned NotFound or NotRetryable recorded none.
C11_OneEventPerCommit ==
    Alive =>
        /\ \A id \in DOMAIN transactions :
              \A n \in 1..Len(transactions[id].RetryAttempts) :
                  /\ Cardinality(AttemptEvents(id, n))
                       + Cardinality({t \in Committed(id) : th[t].attemptNum = n}) = 1
                  /\ \A i \in AttemptEvents(id, n) :
                        events[i].EventType = AttemptEventType(transactions[id], n)
        /\ \A i \in 1..Len(events) :
              (events[i].EventType # EventRetryScheduled /\ events[i].AttemptNumber >= 1) =>
                  /\ events[i].TransactionID \in DOMAIN transactions
                  /\ events[i].AttemptNumber
                       <= Len(transactions[events[i].TransactionID].RetryAttempts)

\* Both attempts of a record have their event, failed then exhausted, and a
\* racing call has just been turned away without one.
C11_Witness ==
    \E id \in DOMAIN transactions :
        /\ Len(transactions[id].RetryAttempts) = 2
        /\ \E i, j \in 1..Len(events) :
              /\ events[i].TransactionID = id /\ events[i].EventType = EventRetryFailed
              /\ events[i].AttemptNumber = 1
              /\ events[j].TransactionID = id /\ events[j].EventType = EventRetryExhausted
              /\ events[j].AttemptNumber = 2
        /\ RetryReturned(id, PendingStatuses)
        /\ lastReturn.err = "NotRetryable"
        /\ Len(events) = 3

\* C12: the events of the committed attempts of one transaction are in the
\* event log in the order of their commits, that is by attempt number.
C12_EventsInCommitOrder ==
    \A i, j \in 1..Len(events) :
        (/\ i < j
         /\ events[i].TransactionID = events[j].TransactionID
         /\ events[i].EventType # EventRetryScheduled
         /\ events[j].EventType # EventRetryScheduled
         /\ events[i].AttemptNumber >= 1 /\ events[j].AttemptNumber >= 1) =>
            events[i].AttemptNumber < events[j].AttemptNumber

\* C13: the first event recorded for a soft-decline transaction is
\* retry.scheduled: every other event of its id has one before it.
C13_ScheduledFirst ==
    \A i \in 1..Len(events) :
        events[i].EventType # EventRetryScheduled =>
            \E j \in 1..(i - 1) :
                /\ events[j].TransactionID = events[i].TransactionID
                /\ events[j].EventType = EventRetryScheduled

\* The positions in the event log of the retry.scheduled events of id.
ScheduledEvents(id) ==
    {i \in 1..Len(events) : /\ events[i].TransactionID = id
                            /\ events[i].EventType = EventRetryScheduled}

\* The Submit(id) calls that have stored their transaction and not returned yet.
Submitting(id) == {t \in Threads : th[t].op = "submit" /\ th[t].id = id}

\* C14: the retry.scheduled events of an id are one, with attempt_number 0,
\* once the Submit that stored a soft-decline transaction under that id has
\* returned, and none otherwise: no Submit of a hard decline, no Submit that
\* was turned away and no Submit that stored nothing records one.
C14_SubmitEvent ==
    Alive =>
        /\ \A id \in TxIDs :
              Cardinality(ScheduledEvents(id)) + Cardinality(Submitting(id))
                  = IF /\ id \in DOMAIN transactions
                       /\ transactions[id].DeclineCategory = SoftDecline
                    THEN 1 ELSE 0
        /\ \A i \in 1..Len(events) :
              events[i].EventType = EventRetryScheduled => events[i].AttemptNumber = 0

\* The Submit of a soft decline has just returned nil with its one event in
\* the log.
C14_Witness ==
    \E id \in DOMAIN transactions :
        /\ transactions[id].DeclineCategory = SoftDecline
        /\ lastReturn.op = "Submit" /\ lastReturn.id = id /\ lastReturn.err = "nil"
        /\ Cardinality(ScheduledEvents(id)) = 1
        /\ events[Len(events)].EventType = EventRetryScheduled

\* Every caller and the scheduler are between two calls.
AllReturned == \A t \in Threads : th[t].op = "idle"

\* C15: once concurrent ExecuteRetry calls on a soft-decline transaction have
\* all returned, one of them turned away by the commit of another, the
\* transaction is Recovered or FailedFinal.
C15_TerminalAfterRace ==
    \A id \in DOMAIN transactions :
        (/\ AllReturned
         /\ RetryReturned(id, PendingStatuses)
         /\ lastReturn.err = "NotRetryable") =>
            transactions[id].Status \in {StatusRecovered, StatusFailedFinal}

\* C15, amended: once the ExecuteRetry calls that found the transaction pending
\* have all returned, the transaction is no longer Scheduled: it is Retrying,
\* Recovered or FailedFinal.
C15_NotScheduledAfterRace ==
    \A id \in DOMAIN transactions :
        (/\ AllReturned
         /\ RetryReturned(id, PendingStatuses)
         /\ lastReturn.err # "panic") =>
            transactions[id].Status
                \in {StatusRetrying, StatusRecovered, StatusFailedFinal}

\* Two calls raced for the first attempt of a two-attempt plan: one committed a
\* failure, the other was turned away, and the record is Retrying with one attempt.
C15_Witness ==
    \E id \in DOMAIN transactions :
        /\ AllReturned
        /\ RetryReturned(id, {StatusScheduled})
        /\ lastReturn.err = "NotRetryable"
        /\ transactions[id].Status = StatusRetrying
        /\ Len(transactions[id].RetryAttempts) = 1

\* C16: whenever no Save, SaveIfNotExists, UpdateFunc or Clear is in progress,
\* the pending index is exactly the set of the stored ids whose status is
\* Scheduled or Retrying.
C16_PendingIndex ==
    mu.writer = 0 =>
        pendingIDs = {id \in DOMAIN transactions :
                         transactions[id].Status \in PendingStatuses}

\* An UpdateFunc has just made a record terminal and taken it out of the
\* index, which still holds the other record.
C16_Witness ==
    /\ mu.writer = 0
    /\ lastReturn.op = "UpdateFunc" /\ lastReturn.err = "nil"
    /\ lastReturn.id \in DOMAIN transactions
    /\ transactions[lastReturn.id].Status = StatusRecovered
    /\ lastReturn.id \notin pendingIDs
    /\ pendingIDs # {}

\* C17: the store that concurrent UpdateFunc (and Save, SaveIfNotExists, Clear)
\* calls leave is the one they leave when applied one after another, each on
\* the store the previous one left, in the order they took the lock.
C17_Linearizable ==
    mu.writer = 0 => store = atomicStore

\* An UpdateFunc runs its callback on a record that holds the attempt one
\* earlier UpdateFunc appended and the status a later one set.
C17_Witness ==
    \E t \in Callers :
        /\ th[t].op = "UpdateFunc" /\ th[t].pc = "fn" /\ th[t].fn = "exhaust"
        /\ th[t].tx[1].Status = StatusRetrying
        /\ Len(th[t].tx[1].RetryAttempts) = 1
        /\ lastReturn.op = "UpdateFunc" /\ lastReturn.id = th[t].id
        /\ lastReturn.err = "nil"

\* C20: GetDueRetries(before) returns exactly the stored transactions whose
\* status is Scheduled or Retrying and whose next_retry_at is set and not
\* after before.
C20_DueRetries ==
    \A t \in Callers :
        (th[t].op = "GetDueRetries" /\ th[t].pc = "runlock") =>
            th[t].result =
                {transactions[id] :
                    id \in {i \in DOMAIN transactions :
                               /\ transactions[i].Status \in PendingStatuses
                               /\ transactions[i].NextRetryAt # None
                               /\ transactions[i].NextRetryAt[1] <= th[t].before}}

\* GetDueRetries returns the one record due exactly at the instant asked for
\* and leaves out a terminal record whose next_retry_at is in the past.
C20_Witness ==
    \E t \in Callers : \E due, other \in DOMAIN transactions :
        /\ th[t].op = "GetDueRetries" /\ th[t].pc = "runlock"
        /\ th[t].result = {transactions[due]}
        /\ transactions[due].NextRetryAt = Some(th[t].before)
        /\ other # due
        /\ transactions[other].Status \notin PendingStatuses
        /\ transactions[other].NextRetryAt # None
        /\ transactions[other].NextRetryAt[1] < th[t].before

\* What Get returns for every stored id.
storedValues == [id \in DOMAIN txPtr |-> valueOf(heap, txPtr[id])]

\* C18: an UpdateFunc whose callback returns an error returns that error and
\* leaves every stored transaction, the set of stored ids and the pending
\* index as they were, whatever the callback wrote to its argument; on an id
\* that is not stored it returns NotFound and stores nothing.
C18_UpdateFuncRollback ==
    [][\A id \in TxIDs, fn \in {"exhaust", "rollback"}, keep \in BOOLEAN :
          UpdateObject(id, fn, keep) =>
              /\ lastReturn'.op = "UpdateFunc"
              /\ id \notin DOMAIN txPtr => lastReturn'.err = "NotFound"
              /\ (id \in DOMAIN txPtr /\ fn = "rollback") =>
                     lastReturn'.err = "test rollback"
              /\ lastReturn'.err # "nil" =>
                     /\ storedValues' = storedValues
                     /\ pendingIDs' = pendingIDs]_vars

\* A callback has failed after writing to its argument, which it kept: the
\* argument carries the writes, the stored transaction is as it was saved.
C18_Witness ==
    \E id \in DOMAIN txPtr : \E k \in held :
        /\ lastReturn = [op |-> "UpdateFunc", id |-> id, err |-> "test rollback"]
        /\ valueOf(heap, k).Status = StatusRecovered
        /\ valueOf(heap, k).NextRetryAt = Some(2)
        /\ valueOf(heap, k).RetryPlan # None
        /\ storedValues[id].Status = StatusScheduled
        /\ storedValues[id].NextRetryAt = Some(1)
        /\ storedValues[id].RetryPlan[1].ScheduledTimes = <<1>>
        /\ id \in pendingIDs

\* C19: no write through a pointer a caller holds (to a transaction it passed
\* to Save or SaveIfNotExists, or was handed by Get, List, GetPendingRetries,
\* GetDueRetries or as the argument of an UpdateFunc callback) changes what
\* Get returns, and a read hands out the stored transactions it selects as
\* they are.
C19_DeepCopyIsolation ==
    [][/\ \A k \in held :
             \A w \in {"Status", "RetryAttempts[0]", "append", "ScheduledTimes[0]",
                       "Processors[0]", "*NextRetryAt", "NextRetryAt"} :
                 CallerWrite(k, w) => storedValues' = storedValues
       /\ \A op \in {"Get", "List", "GetPendingRetries", "GetDueRetries"} :
             \A id \in TxIDs \cup {0}, before \in StoreInstants \cup {0} :
                 ReadObjects(op, id, before) =>
                     /\ storedValues' = storedValues
                     /\ \A k \in held' \ held :
                           \E i \in selected(op, id, before) :
                               valueOf(heap', k) = storedValues[i]]_vars

\* A caller holds the transaction it saved and the copy a read handed out, and
\* has overwritten the scheduled time of one of them; the stored transaction
\* has the time it was saved with.
C19_Witness ==
    \E id \in DOMAIN txPtr : \E k, j \in held :
        /\ k # j
        /\ writes = 1
        /\ valueOf(heap, k).RetryPlan # None
        /\ valueOf(heap, k).RetryPlan[1].ScheduledTimes = <<2>>
        /\ valueOf(heap, j).RetryPlan # None
        /\ valueOf(heap, j).RetryPlan[1].ScheduledTimes = <<1>>
        /\ storedValues[id].RetryPlan # None
        /\ storedValues[id].RetryPlan[1].ScheduledTimes = <<1>>

-----------------------------------------------------------------------------
(* The scheduler *)

\* The scheduler has returned from Start.
StoppedThread == [IdleThread EXCEPT !.op = "stopped", !.pc = "stopped"]

\* A select that takes the cancellation case wherever the loop is.
doneAnywhere(l, done) == done

\* Scheduler.Start, the case <-ctx.Done() of the select: ready once the context
\* is cancelled, and the loop is at its select only between two ticks.
doneReady(l, done) == done /\ l.op = "idle"

\* main: cancel(), on SIGINT or SIGTERM.
Cancel ==
    /\ ~ctxDone
    /\ ctxDone' = TRUE
    /\ UNCHANGED <<retryStrategies, transactions, pendingIDs, events, now, th, okCount,
                   lastReturn, clears, mu, atomicStore, heap, txPtr, held, writes,
                   otherMu>>

\* Scheduler.Start takes the cancellation case and returns.
Stop ==
    /\ doneReady(th[Scheduler], ctxDone)
    /\ th' = [th EXCEPT ![Scheduler] = StoppedThread]
    /\ UNCHANGED <<retryStrategies, transactions, pendingIDs, events, now, okCount,
                   lastReturn, clears, mu, atomicStore, heap, txPtr, held, writes,
                   ctxDone, otherMu>>

\* The steps of the scheduler goroutine.
SchedulerStep ==
    \/ \E order \in Orders(GetDueRetries(store, now)) : Tick(order)
    \/ Call(Scheduler)
    \/ \E roll \in Rolls : Process(Scheduler, roll)
    \/ Commit(Scheduler)
    \/ CommitSend(Scheduler)
    \/ ExhaustedUpdate(Scheduler)
    \/ ExhaustedSend(Scheduler)

\* The scheduler with its context, next to one API client that submits and
\* retries by hand, one request at a time.
NextScheduler ==
    \/ \E ov \in OverrideInputs : \E order \in Orders(DOMAIN ov) :
          ApplyStrategyOverrides(ov, order)
    \/ \E id \in TxIDs, code \in SubmitCodes, p \in SubmitProcessors :
          Submit(1, id, code, p)
    \/ SubmitSend(1)
    \/ \E id \in TxIDs : Retry(1, id)
    \/ \E t \in {1, Scheduler} : ExhaustedUpdate(t)
    \/ \E t \in {1, Scheduler} : ExhaustedSend(t)
    \/ \E t \in {1, Scheduler}, roll \in Rolls : Process(t, roll)
    \/ \E t \in {1, Scheduler} : Commit(t)
    \/ \E t \in {1, Scheduler} : CommitSend(t)
    \/ Call(Scheduler)
    \/ \E order \in Orders(GetDueRetries(store, now)) : Tick(order)
    \/ \E tm \in ScheduledInstants : AdvanceTime(tm)
    \/ Cancel
    \/ Stop

\* The ticker fires for ever and the goroutine is scheduled, so the scheduler
\* takes the step it can take; the select chooses at random among its ready
\* cases, so a cancelled context is taken at one of the selects it is ready
\* at; and the clock advances.
SpecScheduler ==
    /\ Init
    /\ [][NextScheduler]_vars
    /\ WF_vars(SchedulerStep)
    /\ SF_vars(Stop)
    /\ WF_vars(\E tm \in ScheduledInstants : AdvanceTime(tm))

\* C21: an attempt the scheduler commits is due: its scheduled time is not
\* later than the present (which is not earlier than the tick's time), and the
\* stored transaction it is appended to is Scheduled or Retrying with a
\* next_retry_at; manual callers may act between the steps of the scheduler.
C21_SchedulerOnlyDue ==
    [][Commit(Scheduler) /\ th'[Scheduler].pc = "send" =>
          LET l == th[Scheduler]
              tx == transactions[l.id]
          IN  /\ newAttempt(l.tx[1], l.attemptNum, l.success).ScheduledAt <= now
              /\ isPendingStatus(tx.Status)
              /\ tx.NextRetryAt # None]_vars

\* C22: while the process runs and the scheduler is not cancelled, a stored
\* transaction that is Scheduled or Retrying is eventually Recovered or
\* FailedFinal, whatever the calls of the scheduler on the way returned.
C22_SchedulerLiveness ==
    \A id \in TxIDs :
        (id \in DOMAIN transactions /\ isPendingStatus(transactions[id].Status))
            ~> \/ ~Alive
               \/ ctxDone
               \/ /\ id \in DOMAIN transactions
                  /\ transactions[id].Status \in {StatusRecovered, StatusFailedFinal}

\* C23: once the context is cancelled the scheduler eventually returns from
\* Start (or the process has ended); it returns only from the select between
\* two ticks, never from inside the work of a tick; and once it has returned it
\* takes no further step, so it issues no further ExecuteRetry.
C23_Cancellation ==
    /\ ctxDone ~> th[Scheduler].op \in {"stopped", "exited"}
    /\ [][th[Scheduler].op = "tick" => th'[Scheduler].op # "stopped"]_vars
    /\ [][th[Scheduler].op = "stopped" => th'[Scheduler] = th[Scheduler]]_vars

\* The scheduler has returned while a retry is due: a tick would have executed it.
C23_Witness ==
    /\ ctxDone
    /\ th[Scheduler] = StoppedThread
    /\ GetDueRetries(store, now) # {}
    /\ \E id \in DOMAIN transactions : Len(transactions[id].RetryAttempts) > 0

-----------------------------------------------------------------------------
(* ProcessAllPending with nobody else at the store *)

NumBatchTx == 2

InitBatch ==
    /\ retryStrategies = defaultRetryStrategies
    /\ transactions = EmptyStore.transactions
    /\ pendingIDs = EmptyStore.pendingIDs
    /\ events = <<>>
    /\ now = 0
    /\ th = [t \in Threads |-> IdleThread]
    /\ okCount = [id \in 1..NumBatchTx |-> 0]
    /\ lastReturn = NoReturn
    /\ clears = 0
    /\ mu = [writer |-> 0, readers |-> {}]
    /\ atomicStore = EmptyStore
    /\ heap = emptyHeap
    /\ txPtr = <<>>
    /\ held = {}
    /\ writes = 0
    /\ ctxDone = FALSE
    /\ otherMu = [m \in {"simulator", "notifier"} |-> [writer |-> 0, readers |-> {}]]

\* domain.LoadRetryConfig(path) while the service runs, between two requests:
\* the file is read and ApplyStrategyOverrides is applied to the table.
LoadRetryConfig(overrides, order) ==
    /\ retryStrategies = defaultRetryStrategies
    /\ \A t \in Threads : th[t].op = "idle"
    /\ retryStrategies' = applyInOrder(retryStrategies, overrides, order).table
    /\ UNCHANGED <<transactions, pendingIDs, events, now, th, okCount, lastReturn, clears>>
    /\ UNCHANGED storeDetail

\* The steps of a request that is being served.
BatchStep ==
    \/ SubmitSend(1)
    \/ ExhaustedUpdate(1)
    \/ ExhaustedSend(1)
    \/ \E roll \in Rolls : Process(1, roll)
    \/ Commit(1)
    \/ CommitSend(1)
    \/ Call(1)
    \/ Refresh(1)
    \/ ProcessAllPendingReturn(1)

\* One API client, one request at a time: submissions, manual retries and
\* POST /api/retry/process-all; the configuration is loaded at start-up or later.
NextBatch ==
    \/ \E ov \in OverrideInputs : \E order \in Orders(DOMAIN ov) :
          ApplyStrategyOverrides(ov, order)
    \/ \E ov \in OverrideInputs : \E order \in Orders(DOMAIN ov) :
          LoadRetryConfig(ov, order)
    \/ \E id \in 1..NumBatchTx, code \in SubmitCodes, p \in SubmitProcessors :
          Submit(1, id, code, p)
    \/ \E id \in 1..NumBatchTx : Retry(1, id)
    \/ \E order \in Orders(GetPendingRetries(store)) : ProcessAllPending(1, order)
    \/ BatchStep

\* net/http serves a request to its end.
SpecBatch == InitBatch /\ [][NextBatch]_vars /\ WF_vars(BatchStep)

\* C24: ProcessAllPending, alone at the store, comes to an end; when it ends,
\* every transaction it enumerated is Recovered or FailedFinal; and the counts
\* it returns are the attempts committed since it started and the enumerated
\* transactions that are Recovered.
C24_ProcessAllPending ==
    /\ th[1].op = "pap" ~> th[1].op # "pap"
    /\ [][th[1].op = "pap" /\ th'[1].op # "pap" =>
             \A id \in DOMAIN th[1].base :
                 /\ id \in DOMAIN transactions'
                 /\ transactions'[id].Status \in {StatusRecovered, StatusFailedFinal}]_vars
    /\ [](th[1].op = "pap" /\ th[1].pc = "return" =>
             /\ LET RECURSIVE committedSince(_)
                     committedSince(S) ==
                         IF S = {} THEN 0
                         ELSE LET id == CHOOSE i \in S : TRUE
                              IN  Len(transactions[id].RetryAttempts) - th[1].base[id]
                                      + committedSince(S \ {id})
                 IN  th[1].processed = committedSince(DOMAIN th[1].base)
             /\ th[1].recovered =
                    Cardinality({id \in DOMAIN th[1].base :
                                    transactions[id].Status = StatusRecovered}))

-----------------------------------------------------------------------------
(* Error kinds *)

\* C25: the error of a call that failed as AlreadyExists, NotFound,
\* NotRetryable or Exhausted matches the sentinel of that kind under errors.Is;
\* in particular the error of a Submit turned away on a stored id matches
\* store.ErrAlreadyExists.
C25_ErrorKinds ==
    lastReturn.err \in {"AlreadyExists", "NotFound", "NotRetryable", "Exhausted"} =>
        Is(lastReturn.wraps, lastReturn.err)

-----------------------------------------------------------------------------
(* Classification is fixed at Submit *)

\* C26: a stored Rejected transaction is Hard, without plan or attempt, and no
\* step changes it: not a configuration load that makes its decline code a
\* soft one, nor a Submit of its id after that; ExecuteRetry on it returns
\* NotRetryable and never gets to the processor call.
C26_CategoryFixedAtSubmit ==
    /\ [](\A id \in DOMAIN transactions :
              transactions[id].Status = StatusRejected =>
                  /\ transactions[id].DeclineCategory = HardDecline
                  /\ transactions[id].RetryPlan = None
                  /\ transactions[id].RetryAttempts = <<>>)
    /\ [][\A id \in DOMAIN transactions :
              transactions[id].Status = StatusRejected =>
                  /\ id \in DOMAIN transactions'
                  /\ transactions'[id] = transactions[id]]_vars
    /\ [](lastReturn.op = "ExecuteRetry" /\ lastReturn.seen = StatusRejected =>
              lastReturn.err = "NotRetryable")
    /\ [](\A t \in Threads :
              th[t].tx # None => th[t].tx[1].Status # StatusRejected)

\* ExecuteRetry has just returned NotRetryable on a Rejected transaction whose
\* decline code the table now holds as a soft decline.
C26_Witness ==
    /\ lastReturn.op = "ExecuteRetry" /\ lastReturn.err = "NotRetryable"
    /\ lastReturn.seen = StatusRejected
    /\ lastReturn.id \in DOMAIN transactions
    /\ transactions[lastReturn.id].Status = StatusRejected
    /\ ClassifyDecline(retryStrategies, transactions[lastReturn.id].DeclineCode) = SoftDecline

-----------------------------------------------------------------------------
(* internal/domain alone: a configuration load, then plans built from the table *)

\* StrategyConfig values as a configuration file can hold them: well-formed
\* ones, one whose delays are not in increasing order, and ones with a field
\* out of the documented range. Rates and the multiplier are percentages.
ConfigInputs ==
    {[ZeroConfig EXCEPT !.MaxAttempts = 2, !.Delays = <<"2h", "24h">>,
                        !.PerAttemptRates = <<0, 50, 100>>],
     [ZeroConfig EXCEPT !.MaxAttempts = 2, !.Delays = <<"24h", "2h">>],
     [ZeroConfig EXCEPT !.BackoffType = BackoffExponential, !.BaseDelay = "5m",
                        !.BackoffMultiplier = 200, !.MaxAttempts = 3],
     [ZeroConfig EXCEPT !.BackoffType = BackoffExponential, !.BaseDelay = "24h",
                        !.BackoffMultiplier = 1000, !.MaxAttempts = 7],
     [ZeroConfig EXCEPT !.UseAltProcessor = TRUE, !.MaxAttempts = 7],
     [ZeroConfig EXCEPT !.BackoffType = BackoffBusinessHours,
                        !.BusinessHoursStart = 9, !.BusinessHoursEnd = 17],
     [ZeroConfig EXCEPT !.BackoffType = BackoffBusinessHours],
     [ZeroConfig EXCEPT !.BackoffType = "random"],
     [ZeroConfig EXCEPT !.BackoffMultiplier = 50],
     [ZeroConfig EXCEPT !.BackoffMultiplier = 100],
     [ZeroConfig EXCEPT !.BackoffMultiplier = -200],
     [ZeroConfig EXCEPT !.BusinessHoursStart = 17, !.BusinessHoursEnd = 9],
     [ZeroConfig EXCEPT !.BusinessHoursStart = 9, !.BusinessHoursEnd = 25],
     [ZeroConfig EXCEPT !.BackoffType = BackoffBusinessHours,
                        !.BusinessHoursStart = -5, !.BusinessHoursEnd = 10],
     [ZeroConfig EXCEPT !.PerAttemptRates = <<50, 150>>],
     [ZeroConfig EXCEPT !.PerAttemptRates = <<-10>>],
     [ZeroConfig EXCEPT !.Delays = <<"not_a_duration">>],
     [ZeroConfig EXCEPT !.BaseDelay = "soon"]}

\* ApplyStrategyOverrides(overrides) on the default table, the codes ranged
\* over in the given order; the call and what it returned are kept.
ConfigLoad(overrides, order) ==
    /\ lastReturn = NoReturn
    /\ LET r == applyInOrder(retryStrategies, overrides, order)
       IN  /\ retryStrategies' = r.table
           /\ lastReturn' = [op |-> "ApplyStrategyOverrides", id |-> 0,
                             err |-> IF r.err THEN "ConfigInvalid" ELSE "nil",
                             seen |-> "", wraps |-> {}, overrides |-> overrides]
    /\ UNCHANGED <<transactions, pendingIDs, events, now, th, okCount, clears>>
    /\ UNCHANGED storeDetail

\* BuildRetryPlan(declineCode, originalProcessor, baseTime) with the table as
\* it is, for any decline code; the call and the plan it returned are kept.
BuildPlan(declineCode, originalProcessor, baseTime, outOfRange) ==
    /\ LET panics == /\ declineCode \in DOMAIN retryStrategies
                     /\ buildPanics(retryStrategies[declineCode])
       IN  lastReturn' =
              [op |-> "BuildRetryPlan", id |-> 0, seen |-> "", wraps |-> {},
               code |-> declineCode, processor |-> originalProcessor,
               baseTime |-> baseTime,
               err |-> IF panics THEN "panic" ELSE "nil",
               plan |-> IF panics THEN None
                        ELSE BuildRetryPlan(retryStrategies, declineCode, originalProcessor,
                                            baseTime, outOfRange)]
    /\ UNCHANGED <<retryStrategies, transactions, pendingIDs, events, now, th, okCount,
                   clears>>
    /\ UNCHANGED storeDetail

\* Configurations for one or two of a code of the catalog and a new one; base
\* times at midnight, in the afternoon and in the evening; original processors
\* at the head of the list of processors, inside it and not in it; and the
\* engine's Submit, which classifies the code and builds the plan of a soft one.
NextDomain ==
    \/ \E codes \in (SUBSET {"insufficient_funds", "new_code"}) \ {{}} :
          \E ov \in [codes -> ConfigInputs] : \E order \in Orders(codes) :
             ConfigLoad(ov, order)
    \/ \E code \in {"insufficient_funds", "new_code"},
          p \in SubmitProcessors \cup {"dlocal_br", "paypal"},
          baseTime \in {0, 16 * Hour, 20 * Hour},
          outOfRange \in {-MaxDuration - 1, MaxDuration} :
             BuildPlan(code, p, baseTime, outOfRange)
    \/ \E code \in {"insufficient_funds", "new_code"}, p \in SubmitProcessors :
          Submit(1, 1, code, p)
    \/ SubmitSend(1)

SpecDomain == Init /\ [][NextDomain]_vars

\* C27: when ApplyStrategyOverrides returned an error, the table is the one
\* it was called on, the default one: no entry of the configuration is in it.
C27_RejectedConfigNotApplied ==
    lastReturn.op = "ApplyStrategyOverrides" /\ lastReturn.err # "nil" =>
        retryStrategies = defaultRetryStrategies

\* C28: ApplyStrategyOverrides returns an error exactly when an entry of the
\* configuration has an unknown backoff_type, a backoff_multiplier that is
\* given and not above 1.0, business hours that are given and not within
\* 0 <= start < end <= 23, a per_attempt_rate outside [0,1], or a duration
\* string that does not parse; a zero-valued field is an omitted one.
C28_ValidationErrors ==
    lastReturn.op = "ApplyStrategyOverrides" =>
        LET defect(cfg) ==
                \/ cfg.BackoffType \notin
                       {"", BackoffFixed, BackoffExponential, BackoffBusinessHours}
                \/ cfg.BackoffMultiplier # 0 /\ cfg.BackoffMultiplier <= 100
                \/ /\ cfg.BusinessHoursStart # 0 \/ cfg.BusinessHoursEnd # 0
                   /\ ~(/\ 0 <= cfg.BusinessHoursStart
                        /\ cfg.BusinessHoursStart < cfg.BusinessHoursEnd
                        /\ cfg.BusinessHoursEnd <= 23)
                \/ \E i \in 1..Len(cfg.PerAttemptRates) :
                      cfg.PerAttemptRates[i] < 0 \/ cfg.PerAttemptRates[i] > 100
                \/ \E i \in 1..Len(cfg.Delays) : ParseDuration(cfg.Delays[i]) = None
                \/ cfg.BaseDelay # "" /\ ParseDuration(cfg.BaseDelay) = None
        IN  lastReturn.err # "nil" <=>
                \E code \in DOMAIN lastReturn.overrides : defect(lastReturn.overrides[code])

\* C29: the plan BuildRetryPlan returns for an Exponential strategy has one
\* time per attempt, strictly increasing, the first at base_time + base_delay
\* and each gap multiplier times the gap before it (base_delay <= 0 stands for
\* 5m and multiplier <= 0 for 2.0).
C29_ExponentialTimes ==
    /\ lastReturn.op = "BuildRetryPlan"
    /\ lastReturn.plan # None
    /\ retryStrategies[lastReturn.code].BackoffType = BackoffExponential
    => LET strategy == retryStrategies[lastReturn.code]
           times == lastReturn.plan[1].ScheduledTimes
           base == IF strategy.BaseDelay <= 0 THEN 5 ELSE strategy.BaseDelay
           multiplier == IF strategy.BackoffMultiplier <= 0 THEN 200
                         ELSE strategy.BackoffMultiplier
       IN  /\ Len(times) = strategy.MaxAttempts
           /\ \A i \in 1..(Len(times) - 1) : times[i] < times[i + 1]
           /\ Len(times) > 0 => times[1] = lastReturn.baseTime + base
           /\ \A i \in 2..(Len(times) - 1) :
                 (times[i + 1] - times[i]) * 100 = (times[i] - times[i - 1]) * multiplier
           /\ Len(times) > 1 => (times[2] - times[1]) * 100 = base * multiplier

\* C30: every scheduled time of a business-hours plan has its hour inside the
\* strategy's window [start, end) (9 to 17 when neither is configured): the
\* candidate, computed as for fixed delays, is kept when its hour is inside
\* the window, moved to start:00:00 of the same day when it is before start,
\* and to start:00:00 of the next day when it is at or after end.
C30_BusinessHoursSnap ==
    /\ lastReturn.op = "BuildRetryPlan"
    /\ lastReturn.plan # None
    /\ retryStrategies[lastReturn.code].BackoffType = BackoffBusinessHours
    => LET strategy == retryStrategies[lastReturn.code]
           unset == strategy.BusinessHoursStart = 0 /\ strategy.BusinessHoursEnd = 0
           start == IF unset THEN 9 ELSE strategy.BusinessHoursStart
           end == IF unset THEN 17 ELSE strategy.BusinessHoursEnd
           times == lastReturn.plan[1].ScheduledTimes
           hourOf(t) == (t \div Hour) % 24
           midnight(t) == t - (t % Day)
       IN  /\ Len(times) = strategy.MaxAttempts
           /\ \A i \in 1..Len(times) :
                 LET candidate == buildFixedTimes(strategy, lastReturn.baseTime)[i]
                 IN  /\ hourOf(times[i]) >= start
                     /\ hourOf(times[i]) < end
                     /\ times[i] =
                           IF hourOf(candidate) >= start /\ hourOf(candidate) < end
                           THEN candidate
                           ELSE IF hourOf(candidate) < start
                           THEN midnight(candidate) + start * Hour
                           ELSE midnight(candidate) + Day + start * Hour

-----------------------------------------------------------------------------
(* Unknown decline codes *)

\* C31: a decline code that is in neither the hard-decline table nor the
\* strategy table classifies as Hard: a transaction submitted with it is
\* stored Rejected, without plan, attempt or next_retry_at and outside the
\* pending index, and BuildRetryPlan returns nil for it.
C31_UnknownCodeIsHard ==
    /\ \A id \in DOMAIN transactions :
          LET tx == transactions[id]
          IN  tx.DeclineCode \notin hardDeclineCodes \cup DOMAIN retryStrategies =>
                  /\ ClassifyDecline(retryStrategies, tx.DeclineCode) = HardDecline
                  /\ tx.DeclineCategory = HardDecline
                  /\ tx.Status = StatusRejected
                  /\ tx.RetryPlan = None
                  /\ tx.RetryAttempts = <<>>
                  /\ tx.NextRetryAt = None
                  /\ id \notin pendingIDs
    /\ \A t \in Threads : th[t].op = "submit" =>
          th[t].tx[1].DeclineCode \in DOMAIN retryStrategies
    /\ (/\ lastReturn.op = "BuildRetryPlan"
        /\ lastReturn.code \notin hardDeclineCodes \cup DOMAIN retryStrategies) =>
          lastReturn.err = "nil" /\ lastReturn.plan = None

\* A transaction of an unknown code is stored and BuildRetryPlan has just
\* returned for that code.
C31_Witness ==
    /\ lastReturn.op = "BuildRetryPlan"
    /\ lastReturn.code \notin hardDeclineCodes \cup DOMAIN retryStrategies
    /\ \E id \in DOMAIN transactions : transactions[id].DeclineCode = lastReturn.code

-----------------------------------------------------------------------------
(* The life of one transaction with a plan of three attempts *)

\* Two API clients submit one transaction, of a hard code, of issuer_timeout
\* (three attempts, alternate processors) or of a code the configuration
\* added, and retry it by hand, one racing with the other.
NextLifecycle ==
    \/ \E ov \in OverrideInputs : \E order \in Orders(DOMAIN ov) :
          ApplyStrategyOverrides(ov, order)
    \/ \E t \in Callers, id \in TxIDs, p \in SubmitProcessors,
          code \in {"stolen_card", "issuer_timeout", "new_code"} :
             Submit(t, id, code, p)
    \/ \E t \in Callers : SubmitSend(t)
    \/ \E t \in Callers, id \in TxIDs : Retry(t, id)
    \/ \E t \in Callers : ExhaustedUpdate(t)
    \/ \E t \in Callers : ExhaustedSend(t)
    \/ \E t \in Callers, roll \in Rolls : Process(t, roll)
    \/ \E t \in Callers : Commit(t)
    \/ \E t \in Callers : CommitSend(t)

SpecLifecycle == Init /\ [][NextLifecycle]_vars

C33_PlanTimeOrdered ==
    lastReturn.op = "BuildRetryPlan" /\ lastReturn.plan # None =>
        \A i \in 1..(Len(lastReturn.plan[1].ScheduledTimes) - 1) :
            lastReturn.plan[1].ScheduledTimes[i] <= lastReturn.plan[1].ScheduledTimes[i + 1]

\* C34: for a soft decline code BuildRetryPlan returns a plan whose
\* scheduled_times and processors have exactly max_attempts entries;
\* processors[0] is the original processor; without use_alt_processor every
\* slot is the original processor; with it, slot i >= 1 is
\* alternatives[(i-1) mod len(alternatives)], alternatives being the available
\* processors without the original one, in their order, so that no slot
\* i >= 1 is the original processor unless there is no alternative.
C34_PlanShape ==
    /\ lastReturn.op = "BuildRetryPlan"
    /\ ClassifyDecline(retryStrategies, lastReturn.code) = SoftDecline
    => /\ lastReturn.err = "nil"
       /\ lastReturn.plan # None
       /\ LET strategy == retryStrategies[lastReturn.code]
              plan == lastReturn.plan[1]
              original == lastReturn.processor
              alternatives == SelectSeq(availableProcessors, LAMBDA p : p # original)
          IN  /\ plan.MaxAttempts = strategy.MaxAttempts
              /\ Len(plan.ScheduledTimes) = strategy.MaxAttempts
              /\ Len(plan.Processors) = strategy.MaxAttempts
              /\ strategy.MaxAttempts >= 1 => plan.Processors[1] = original
              /\ ~strategy.UseAltProcessor =>
                    \A i \in 1..Len(plan.Processors) : plan.Processors[i] = original
              /\ strategy.UseAltProcessor /\ alternatives # <<>> =>
                    \A i \in 2..Len(plan.Processors) :
                        /\ plan.Processors[i] =
                              alternatives[((i - 2) % Len(alternatives)) + 1]
                        /\ plan.Processors[i] # original
              /\ strategy.UseAltProcessor /\ alternatives = <<>> =>
                    \A i \in 2..Len(plan.Processors) : plan.Processors[i] = original

-----------------------------------------------------------------------------
(* The exhausted branch of ExecuteRetry *)

\* C35: an ExecuteRetry that finds a pending transaction with max_attempts
\* attempts or more calls no processor, makes the transaction FailedFinal
\* without next_retry_at in one step, records one retry.exhausted event whose
\* attempt_number is the number of attempts, and returns Exhausted; whatever
\* the number of calls that take this branch at the same time, the log holds
\* one retry.exhausted event for the transaction.
C35_ExhaustedBranch ==
    /\ [][\A t \in Threads :
              /\ ExhaustedUpdate(t) =>
                    /\ th[t].id \in DOMAIN transactions'
                    /\ transactions'[th[t].id].Status = StatusFailedFinal
                    /\ transactions'[th[t].id].NextRetryAt = None
                    /\ th'[t].pc = "exhausted_send"
              /\ ExhaustedSend(t) =>
                    /\ events' = Append(events,
                                        [EventType |-> EventRetryExhausted,
                                         TransactionID |-> th[t].id,
                                         Status |-> events'[Len(events')].Status,
                                         AttemptNumber |->
                                             Len(transactions[th[t].id].RetryAttempts)])
                    /\ lastReturn'.op = "ExecuteRetry" /\ lastReturn'.id = th[t].id
                    /\ lastReturn'.err = "Exhausted"]_vars
    /\ [](\A id \in TxIDs :
             Cardinality({i \in DOMAIN events :
                             /\ events[i].EventType = EventRetryExhausted
                             /\ events[i].TransactionID = id}) <= 1)

-----------------------------------------------------------------------------
(* The three locks: every operation as the lock calls it makes, in order *)

\* A method that takes the lock m for its whole body: m.Lock() (or RLock())
\* and the deferred, or closing, Unlock.
section(m, kind) == <<[kind |-> kind, m |-> m], [kind |-> "Unlock", m |-> m]>>

\* An ExecuteRetry that calls the processor from inside the callback of
\* UpdateFunc.
executeRetryLocksNested ==
    {section("store", "RLock")
        \o <<[kind |-> "Lock", m |-> "store"], [kind |-> "enter", m |-> "adapter"]>>
        \o section("simulator", "Lock")
        \o <<[kind |-> "leave", m |-> "adapter"], [kind |-> "Unlock", m |-> "store"]>>
        \o section("notifier", "Lock")}

\* Engine.ExecuteRetry by its branches (engine.go 127-237): Get alone when it
\* returns NotFound or NotRetryable; Get, UpdateFunc and Send in the exhausted
\* branch; otherwise Get, ProcessPayment, which takes the simulator's lock
\* around the roll unless the code has no strategy (simulator.go 35-53),
\* UpdateFunc and, when the commit went through, Send.
executeRetryLocks ==
    LET get == section("store", "RLock")
        update == section("store", "Lock")
        send == section("notifier", "Lock")
        adapter(roll) ==
            <<[kind |-> "enter", m |-> "adapter"]>> \o roll
                \o <<[kind |-> "leave", m |-> "adapter"]>>
    IN  {get, get \o update \o send}
            \cup {get \o adapter(roll) \o update \o after :
                    roll \in {<<>>, section("simulator", "Lock")}, after \in {<<>>, send}}

\* The operations of the service: ExecuteRetry; Submit and POST /api/reset
\* (the store written, then, or not, the notifier); a scheduler tick and
\* ProcessAllPending (a read of the store, ExecuteRetry and, in
\* ProcessAllPending, the re-read); GET /api/webhooks/events.
LockPrograms ==
    executeRetryLocks
        \cup {section("store", "Lock"),
              section("store", "Lock") \o section("notifier", "Lock"),
              section("notifier", "RLock")}
        \cup {section("store", "RLock") \o call \o again :
                 call \in executeRetryLocks, again \in {<<>>, section("store", "RLock")}}

\* Thread t starts an operation.
Begin(t, program) ==
    /\ th[t].op = "idle"
    /\ th' = [th EXCEPT ![t] =
                 [IdleThread EXCEPT !.op = "call", !.pc = "call", !.queue = program]]
    /\ UNCHANGED <<retryStrategies, transactions, pendingIDs, events, now, okCount,
                   lastReturn, clears>>
    /\ UNCHANGED storeDetail

\* Thread t makes its next lock call, once sync.RWMutex lets it in, or enters
\* or leaves Simulator.ProcessPayment.
LockStep(t) ==
    /\ th[t].queue # <<>>
    /\ LET c == Head(th[t].queue)
           m == IF c.m = "store" THEN mu
                ELSE IF c.m \in DOMAIN otherMu THEN otherMu[c.m]
                ELSE [writer |-> 0, readers |-> {}]
           after == CASE c.kind = "Lock" -> [m EXCEPT !.writer = t]
                      [] c.kind = "RLock" -> [m EXCEPT !.readers = @ \cup {t}]
                      [] c.kind = "Unlock" ->
                            [writer |-> IF m.writer = t THEN 0 ELSE m.writer,
                             readers |-> m.readers \ {t}]
                      [] OTHER -> m
       IN  /\ c.kind = "Lock" => canLock(m)
           /\ c.kind = "RLock" => canRLock(m)
           /\ mu' = IF c.m = "store" THEN after ELSE mu
           /\ otherMu' = IF c.m \in DOMAIN otherMu THEN [otherMu EXCEPT ![c.m] = after]
                         ELSE otherMu
           /\ th' = [th EXCEPT ![t] =
                        IF Tail(th[t].queue) = <<>> THEN IdleThread
                        ELSE [@ EXCEPT !.queue = Tail(@),
                                       !.pc = CASE c.kind = "enter" -> "process"
                                                [] c.kind = "leave" -> "call"
                                                [] OTHER -> @]]
    /\ UNCHANGED <<retryStrategies, transactions, pendingIDs, events, now, okCount,
                   lastReturn, clears, atomicStore, heap, txPtr, held, writes, ctxDone>>

NextLocks ==
    \/ \E t \in Threads, program \in LockPrograms : Begin(t, program)
    \/ \E t \in Threads : LockStep(t)

SpecLocks == Init /\ [][NextLocks]_vars

\* C36: no thread holds the store's lock while it is inside the processor
\* call, no thread holds two of the three locks (store, simulator, notifier)
\* at once, and whenever an operation is under way some thread can take its
\* next step: no interleaving ends in a deadlock.
C36_NoNestedLocks ==
    LET holds(t) ==
            {m \in {"store", "simulator", "notifier"} :
                LET l == IF m = "store" THEN mu ELSE otherMu[m]
                IN  l.writer = t \/ t \in l.readers}
    IN  /\ \A t \in Threads :
              /\ Cardinality(holds(t)) <= 1
              /\ th[t].pc = "process" => "store" \notin holds(t)
        /\ (\E t \in Threads : th[t].queue # <<>>) =>
              ENABLED (\E t \in Threads : LockStep(t))

\* One thread holds the simulator's lock inside the processor call, another
\* writes the store, and the third waits for the store's lock.
C36_Witness ==
    \E t, u, v \in Threads :
        /\ th[t].pc = "process" /\ otherMu["simulator"].writer = t
        /\ mu.writer = u /\ u # t
        /\ v \notin {t, u}
        /\ th[v].queue # <<>> /\ Head(th[v].queue) = [kind |-> "Lock", m |-> "store"]

-----------------------------------------------------------------------------
(* The catalog after a configuration load *)

\* C37: after ApplyStrategyOverrides has returned nil every strategy of the
\* catalog is well-formed (max_attempts >= 1, per_attempt_rates not empty and,
\* unless the backoff is exponential, delays not empty); and with a
\* well-formed catalog a stored transaction of a soft code is Scheduled, or
\* further on, with a plan, one that is still Scheduled has a next_retry_at,
\* and BuildRetryPlan does not index an empty list.
C37_CatalogWellFormed ==
    LET wellFormed(s) ==
            /\ s.MaxAttempts >= 1
            /\ Len(s.PerAttemptRates) >= 1
            /\ s.BackoffType # BackoffExponential => Len(s.Delays) >= 1
        catalogOk == \A code \in DOMAIN retryStrategies : wellFormed(retryStrategies[code])
    IN  /\ (lastReturn.op = "ApplyStrategyOverrides" /\ lastReturn.err = "nil") => catalogOk
        /\ catalogOk =>
              /\ \A id \in DOMAIN transactions :
                    transactions[id].DeclineCategory = SoftDecline =>
                        /\ transactions[id].Status # StatusRejected
                        /\ transactions[id].RetryPlan # None
                        /\ transactions[id].Status = StatusScheduled =>
                              transactions[id].NextRetryAt # None
              /\ lastReturn.op = "BuildRetryPlan" => lastReturn.err # "panic"

-----------------------------------------------------------------------------
(* The status an event of ExecuteRetry carries *)

\* C38: every event recorded by ExecuteRetry carries the status its commit
\* installed: a retry.succeeded event has status recovered, a retry.exhausted
\* event failed_final and a retry.failed event retrying.
C38_EventStatus ==
    \A i \in 1..Len(events) :
        /\ events[i].EventType = EventRetrySucceeded => events[i].Status = StatusRecovered
        /\ events[i].EventType = EventRetryExhausted => events[i].Status = StatusFailedFinal
        /\ events[i].EventType = EventRetryFailed => events[i].Status = StatusRetrying

-----------------------------------------------------------------------------
(* Attempts against the plan of the record that holds them *)

\* C39: for every stored transaction and every recorded attempt n, the
\* attempt's processor and scheduled_at are the n-th processor and the n-th
\* scheduled time of the plan of that same stored record, whatever the
\* interleaving of Submit, ExecuteRetry and Clear.
C39_AttemptFollowsStoredPlan ==
    \A id \in DOMAIN transactions :
        \A n \in 1..Len(transactions[id].RetryAttempts) :
            /\ transactions[id].RetryPlan # None
            /\ n \in DOMAIN transactions[id].RetryPlan[1].Processors
            /\ n \in DOMAIN transactions[id].RetryPlan[1].ScheduledTimes
            /\ transactions[id].RetryAttempts[n].Processor =
                  transactions[id].RetryPlan[1].Processors[n]
            /\ transactions[id].RetryAttempts[n].ScheduledAt =
                  transactions[id].RetryPlan[1].ScheduledTimes[n]

-----------------------------------------------------------------------------
(* A commit after Clear *)

\* C40: when Clear has removed the transaction between the snapshot and the
\* commit of an ExecuteRetry call and the id has not been submitted again, the
\* commit fails with NotFound and resurrects nothing: the store still holds no
\* record for the id, the pending index does not contain it, and the call
\* returns NotFound without recording an event.
C40_CommitAfterClear ==
    [][\A t \in Callers :
          (Commit(t) /\ th[t].id \notin DOMAIN transactions) =>
              /\ transactions' = transactions
              /\ pendingIDs' = pendingIDs
              /\ th[t].id \notin DOMAIN transactions'
              /\ th[t].id \notin pendingIDs'
              /\ events' = events
              /\ th'[t] = IdleThread
              /\ lastReturn'.op = "ExecuteRetry" /\ lastReturn'.id = th[t].id
              /\ lastReturn'.err = "NotFound"
              /\ lastReturn'.wraps = {"NotFound"}]_vars

\* A call that saw the transaction pending has returned NotFound after the
\* reset, and the store holds nothing under the id.
C40_Witness ==
    /\ clears = 1
    /\ lastReturn.op = "ExecuteRetry" /\ lastReturn.err = "NotFound"
    /\ lastReturn.seen \in PendingStatuses
    /\ lastReturn.id \notin DOMAIN transactions
    /\ lastReturn.id \notin pendingIDs
    /\ \A t \in Threads : th[t].op = "idle"

====
